---- MODULE Spec2Model ----
(***************************************************************************)
(* BrontoBox: client-side encryption and distributed chunk storage.        *)
(*                                                                         *)
(* The model follows the Python sources: crypto_manager.py (CryptoManager),*)
(* vault_core.py (VaultCore), file_chunker.py (FileChunker) and            *)
(* storage_manager.py (BrontoBoxStorageManager).                           *)
(*                                                                         *)
(* Cryptography is modelled symbolically (ideal primitives):               *)
(*   - a SHA-256 digest is the record [sha256 |-> preimage], its 16 hex    *)
(*     digit prefix the record [h16 |-> preimage]: equal iff the preimages *)
(*     are equal;                                                          *)
(*   - PBKDF2 output is identified by (password, salt), a 32-byte slice of *)
(*     it by (password, salt, byte offset);                                *)
(*   - an AES-GCM ciphertext is the record [k, n, d, t]: key, nonce, data  *)
(*     and t = 0 for the bytes the cipher produced, t = 1 for those bytes  *)
(*     with some bit flipped; decryption accepts exactly t = 0 under the   *)
(*     same key and nonce.                                                 *)
(* Python's None is a sentinel of the field's type (NoKeys, NoSalt, ...);  *)
(* an Optional argument is a set with at most one element.                 *)
(***************************************************************************)
EXTENDS Integers, Sequences, FiniteSets, TLC

VARIABLES
    vault,        \* the VaultCore instance: is_unlocked, master_keys, user_salt, vault_id
    vault_store,  \* what initialize_vault returned, as the caller persisted it (a list)
    enc_log,      \* the blobs encrypt_data has returned (with key and data)
    files,        \* the local file system: path -> file
    chunked,      \* what chunk_file or encrypt_file returned, as the caller kept it
    stored_files, \* BrontoBoxStorageManager.stored_files: file_id -> StoredFile
    drive,        \* the objects uploaded to Google Drive, in upload order
    accounts,     \* the connected accounts: account_id -> available space
    next_token,   \* the next value secrets.token_hex returns to store_file
    saved_registry, \* the blob save_file_registry returned, as the caller kept it
    storing,      \* the store_file call in progress: its position and locals
    auth_calls,   \* the authenticate_new_account calls in progress: caller -> position
    auth_manager, \* GoogleAuthManager: _auth_in_progress, _last_auth_time
    last          \* the last call: operation, arguments, what it returned

callVars == <<storing, auth_calls, auth_manager>>

vars == <<vault, vault_store, enc_log, files, chunked, stored_files, drive, accounts,
          next_token, saved_registry, storing, auth_calls, auth_manager, last>>

(***************************************************************************)
(* Bounds of the model.                                                    *)
(***************************************************************************)
MaxVaults == 2         \* vaults initialized in one behaviour
NumNonces == 2         \* values a random 12-byte nonce can take
MaxBlobs == 2          \* blobs kept in enc_log
MaxFileLen == 4        \* bytes in a file
MaxChunkSize == 2      \* max_chunk_size of the FileChunker instance
MaxStores == 1         \* store_file calls that reach the upload loop
MaxAltered == 1        \* Drive objects whose bytes are altered

\* Two master passwords: for any vault, the right one and a wrong one.
Passwords == {1, 2}
Salts == 1..MaxVaults
Nonces == 1..NumNonces

(***************************************************************************)
(* base64 text.  [b |-> bytes, form |-> f]: form 0 is the text b64encode   *)
(* returns; form 1 is a different text that b64decode (validate=False)     *)
(* maps to the same bytes (ignored characters, spare bits of the last      *)
(* digit, surplus padding); form 2 is a text b64decode rejects.            *)
(***************************************************************************)
b64encode(bytes) == [b |-> bytes, form |-> 0]

b64decode_raises(text) == text.form = 2

b64decode(text) == text.b

(***************************************************************************)
(* hashlib                                                                 *)
(***************************************************************************)
sha256_hex(data) == [sha256 |-> data]

sha256_hex16(data) == [h16 |-> data]

(***************************************************************************)
(* CryptoManager                                                           *)
(***************************************************************************)
NoKey == <<0, 0, 0>>

NoKeys == [file_encryption |-> NoKey, metadata_encryption |-> NoKey,
           vault_unlock |-> NoKey, token_encryption |-> NoKey]

NoKeyId == sha256_hex16(NoKey)

NoData == [kind |-> "none", val |-> 0]

\* A call that raises (err names the exception) or returns data.
Raise(err) == [ok |-> FALSE, data |-> NoData, err |-> err]

Return(data) == [ok |-> TRUE, data |-> data, err |-> ""]

\* PBKDF2-HMAC-SHA256 key material split at byte offsets 0, 32, 64, 96.
derive_master_keys(master_password, salt) ==
    [file_encryption     |-> <<master_password, salt, 0>>,
     metadata_encryption |-> <<master_password, salt, 32>>,
     vault_unlock        |-> <<master_password, salt, 64>>,
     token_encryption    |-> <<master_password, salt, 96>>]

\* AESGCM(key).encrypt(nonce, data, None)
AESGCM_encrypt(key, nonce, data) == [k |-> key, n |-> nonce, d |-> data, t |-> 0]

\* AESGCM(key).decrypt(nonce, ciphertext, None): InvalidTag unless the bytes
\* are what encrypt produced under this key and nonce.
AESGCM_decrypt(key, nonce, ciphertext) ==
    IF ciphertext.t = 0 /\ ciphertext.k = key /\ ciphertext.n = nonce
    THEN Return(ciphertext.d)
    ELSE Raise("InvalidTag")

key_fingerprint(key) == sha256_hex16(key)

encrypt_data(data, key, nonce) ==
    [ciphertext |-> b64encode(AESGCM_encrypt(key, nonce, data)),
     nonce      |-> b64encode(nonce),
     algorithm  |-> "AES-256-GCM",
     key_id     |-> key_fingerprint(key)]

decrypt_data_NoKeyIdCheck(encrypted_data, key) ==
    IF b64decode_raises(encrypted_data.ciphertext) \/ b64decode_raises(encrypted_data.nonce)
    THEN Raise("binascii.Error")
    ELSE AESGCM_decrypt(key, b64decode(encrypted_data.nonce),
                        b64decode(encrypted_data.ciphertext))

decrypt_data_NoTagCheck(encrypted_data, key) ==
    IF encrypted_data.key_id # key_fingerprint(key) THEN Raise("Invalid decryption key")
    ELSE IF b64decode_raises(encrypted_data.ciphertext) \/ b64decode_raises(encrypted_data.nonce)
    THEN Raise("binascii.Error")
    ELSE Return(b64decode(encrypted_data.ciphertext).d)

decrypt_data(encrypted_data, key) ==
    IF encrypted_data.key_id # key_fingerprint(key) THEN Raise("Invalid decryption key")
    ELSE IF b64decode_raises(encrypted_data.ciphertext) \/ b64decode_raises(encrypted_data.nonce)
    THEN Raise("binascii.Error")
    ELSE AESGCM_decrypt(key, b64decode(encrypted_data.nonce),
                        b64decode(encrypted_data.ciphertext))

(***************************************************************************)
(* json: dumps(...).encode('utf-8') of an object of the given kind, and    *)
(* loads(...decode('utf-8')), which raises on bytes that are no JSON text. *)
(***************************************************************************)
json_dumps(kind, val) == [kind |-> kind, val |-> val]

\* Bytes that are not JSON text: file content, as a sequence of byte values.
raw_bytes(bytes) == [kind |-> "raw", val |-> bytes]

json_loads_raises(bytes) == bytes.kind \in {"raw", "none"}

(***************************************************************************)
(* Files.  A file's content is a sequence of byte values; a path holds a   *)
(* file or nothing.                                                        *)
(***************************************************************************)
NoFile == [exists |-> FALSE, data |-> <<>>]

File(data) == [exists |-> TRUE, data |-> data]

NoFiles == [p \in {"src", "out"} |-> NoFile]

Min(a, b) == IF a <= b THEN a ELSE b

(***************************************************************************)
(* FileChunker                                                             *)
(***************************************************************************)
calculate_chunks_needed_Floor(file_size) == file_size \div MaxChunkSize

\* math.ceil(file_size / self.max_chunk_size)
calculate_chunks_needed(file_size) == (file_size + MaxChunkSize - 1) \div MaxChunkSize

read_chunk_NoAdvance(data, chunk_index) ==
    SubSeq(data, 1, Min(MaxChunkSize, Len(data)))

\* The chunk_index-th file.read(self.max_chunk_size) of a sequential read.
read_chunk(data, chunk_index) ==
    SubSeq(data, chunk_index * MaxChunkSize + 1,
           Min((chunk_index + 1) * MaxChunkSize, Len(data)))

\* chunk_file of an existing file.  token is the value behind the random
\* chunk ids, nonces[i] the nonce encrypt_data draws for chunk i.
chunk_file(file_name, file, encryption_key, token, nonces) ==
    LET file_size == Len(file.data)
        num_chunks == calculate_chunks_needed(file_size)
        \* the loop breaks at the first empty read
        n_read == Cardinality({i \in 0..(num_chunks - 1) : read_chunk(file.data, i) # <<>>})
        chunk(i) ==
            LET chunk_data == read_chunk(file.data, i)
            IN [chunk_id       |-> <<token, i>>,
                chunk_index    |-> i,
                chunk_size     |-> Len(chunk_data),
                chunk_hash     |-> sha256_hex(chunk_data),
                encrypted_data |-> encrypt_data(raw_bytes(chunk_data), encryption_key,
                                                nonces[i])]
    IN [file_name   |-> file_name,
        file_size   |-> file_size,
        file_hash   |-> sha256_hex(SubSeq(file.data, 1,
                                          Min(file_size, n_read * MaxChunkSize))),
        num_chunks  |-> n_read,
        chunk_size  |-> MaxChunkSize,
        chunks      |-> [j \in 1..n_read |-> chunk(j - 1)],
        created_at  |-> 0,
        modified_at |-> 0]

\* sorted(chunks, key=lambda x: x['chunk_index']): a stable sort.
RECURSIVE sorted_by_index(_)
sorted_by_index(chunks) ==
    IF chunks = <<>> THEN <<>>
    ELSE LET least == CHOOSE i \in 1..Len(chunks) :
                        \A j \in 1..Len(chunks) :
                           \/ chunks[i].chunk_index < chunks[j].chunk_index
                           \/ (chunks[i].chunk_index = chunks[j].chunk_index /\ i <= j)
         IN <<chunks[least]>>
            \o sorted_by_index([j \in 1..(Len(chunks) - 1) |->
                                  IF j < least THEN chunks[j] ELSE chunks[j + 1]])

RECURSIVE join_bytes(_)
join_bytes(parts) ==
    IF parts = <<>> THEN <<>> ELSE Head(parts) \o join_bytes(Tail(parts))

reconstruct_file_KeepCorrupted(manifest, out, encryption_key) ==
    LET sorted_chunks == sorted_by_index(manifest.chunks)
        dec(i) == decrypt_data(sorted_chunks[i].encrypted_data, encryption_key)
        bad == {i \in 1..Len(sorted_chunks) :
                  \/ ~dec(i).ok
                  \/ sha256_hex(dec(i).data.val) # sorted_chunks[i].chunk_hash}
    IN IF bad # {}
       THEN [ret |-> FALSE, out |-> out]
       ELSE LET written == join_bytes([i \in 1..Len(sorted_chunks) |-> dec(i).data.val])
            IN [ret |-> sha256_hex(written) = manifest.file_hash, out |-> File(written)]

\* reconstruct_file: what it returns and the file at output_path afterwards
\* (out is the file there before the call).
reconstruct_file(manifest, out, encryption_key) ==
    LET sorted_chunks == sorted_by_index(manifest.chunks)
        dec(i) == decrypt_data(sorted_chunks[i].encrypted_data, encryption_key)
        bad == {i \in 1..Len(sorted_chunks) :
                  \/ ~dec(i).ok
                  \/ sha256_hex(dec(i).data.val) # sorted_chunks[i].chunk_hash}
    IN IF bad # {}
       THEN [ret |-> FALSE, out |-> out]
       ELSE LET written == join_bytes([i \in 1..Len(sorted_chunks) |-> dec(i).data.val])
            IN IF sha256_hex(written) # manifest.file_hash
               THEN [ret |-> FALSE, out |-> NoFile]   \* os.remove(output_path)
               ELSE [ret |-> TRUE, out |-> File(written)]

(***************************************************************************)
(* VaultCore.  self is the record of the instance's fields.  A method is   *)
(* an operator from self and the arguments (and the random values it       *)
(* draws) to [self |-> the fields afterwards, ret |-> what it returns].    *)
(* The payload's created_at and verification_token are written and never   *)
(* read; they are left out.                                                *)
(***************************************************************************)
NoSalt == 0

NoVaultId == 0

VERIFICATION_PREFIX == "BRONTOBOX_VAULT_"

VERIFICATION_VERSION == "1.0"

\* VaultCore.__init__
NewVaultCore ==
    [is_unlocked |-> FALSE, master_keys |-> NoKeys,
     user_salt |-> NoSalt, vault_id |-> NoVaultId]

password_hash(master_password) == sha256_hex16(master_password)

_create_verification_data(self, master_password, nonce) ==
    LET verification_payload ==
            [prefix        |-> VERIFICATION_PREFIX,
             vault_id      |-> self.vault_id,
             version       |-> VERIFICATION_VERSION,
             password_hash |-> password_hash(master_password)]
    IN encrypt_data(json_dumps("verification", verification_payload),
                    self.master_keys.vault_unlock, nonce)

\* salt, new_vault_id and nonce are the values generate_salt, token_hex and
\* token_bytes return.
initialize_vault(self, master_password, salt, new_vault_id, nonce) ==
    LET s1 == [self EXCEPT !.user_salt = salt,
                           !.master_keys = derive_master_keys(master_password, salt),
                           !.vault_id = new_vault_id]
        verification_data == _create_verification_data(s1, master_password, nonce)
    IN [self |-> [s1 EXCEPT !.is_unlocked = TRUE],
        ret  |-> [vault_id |-> s1.vault_id,
                  salt |-> b64encode(s1.user_salt),
                  verification_data |-> verification_data]]

_verify_credentials_AlwaysTrue(self, master_password, test_keys, verification_data) ==
    [self |-> self, ret |-> TRUE, msg |-> "Credentials verified successfully"]

_verify_credentials_KeepVaultId(self, master_password, test_keys, verification_data) ==
    LET dec == decrypt_data(verification_data, test_keys.vault_unlock)
        ok == /\ dec.ok
              /\ dec.data.kind = "verification"
              /\ dec.data.val.prefix = VERIFICATION_PREFIX
              /\ dec.data.val.version = VERIFICATION_VERSION
              /\ dec.data.val.password_hash = password_hash(master_password)
    IN  [self |-> self, ret |-> ok,
         msg |-> IF ok THEN "Credentials verified successfully"
                 ELSE "Credential verification failed"]

\* msg is the line the method prints.
_verify_credentials(self, master_password, test_keys, verification_data) ==
    LET dec == decrypt_data(verification_data, test_keys.vault_unlock)
        failed(msg) == [self |-> self, ret |-> FALSE, msg |-> msg]
    IN  IF ~dec.ok THEN failed("Credential verification failed: " \o dec.err)
        ELSE IF json_loads_raises(dec.data)
        THEN failed("Credential verification failed: JSONDecodeError")
        \* a JSON value of another shape: .get('prefix') is None
        ELSE IF dec.data.kind # "verification" THEN failed("Invalid verification prefix")
        ELSE LET verification_payload == dec.data.val
             IN IF verification_payload.prefix # VERIFICATION_PREFIX
                THEN failed("Invalid verification prefix")
                ELSE IF verification_payload.version # VERIFICATION_VERSION
                THEN failed("Unsupported vault version")
                ELSE IF verification_payload.password_hash # password_hash(master_password)
                THEN failed("Password hash mismatch")
                ELSE [self |-> [self EXCEPT !.vault_id = verification_payload.vault_id],
                      ret |-> TRUE, msg |-> "Credentials verified successfully"]

\* verification_data: {} for None (or a falsy value), {blob} otherwise.
unlock_vault_KeysBeforeVerify(self, master_password, salt_b64, verification_data) ==
    IF b64decode_raises(salt_b64)
    THEN [self |-> [self EXCEPT !.is_unlocked = FALSE], ret |-> FALSE,
          msg |-> "Vault unlock failed: binascii.Error"]
    ELSE LET s1 == [self EXCEPT !.user_salt = b64decode(salt_b64),
                                !.master_keys = derive_master_keys(master_password,
                                                                   b64decode(salt_b64))]
             v == IF verification_data = {}
                  THEN [self |-> s1, ret |-> TRUE, msg |-> "no verification data"]
                  ELSE _verify_credentials(s1, master_password, s1.master_keys,
                                           CHOOSE b \in verification_data : TRUE)
         IN [self |-> [v.self EXCEPT !.is_unlocked = v.ret], ret |-> v.ret, msg |-> v.msg]

unlock_vault(self, master_password, salt_b64, verification_data) ==
    IF b64decode_raises(salt_b64)
    THEN [self |-> [self EXCEPT !.is_unlocked = FALSE], ret |-> FALSE,
          msg |-> "Vault unlock failed: binascii.Error"]
    ELSE LET s1 == [self EXCEPT !.user_salt = b64decode(salt_b64)]
             test_keys == derive_master_keys(master_password, s1.user_salt)
             v == IF verification_data = {}
                  THEN [self |-> s1, ret |-> TRUE, msg |-> "no verification data"]
                  ELSE _verify_credentials(s1, master_password, test_keys,
                                           CHOOSE b \in verification_data : TRUE)
         IN IF ~v.ret
            THEN [self |-> [v.self EXCEPT !.is_unlocked = FALSE], ret |-> FALSE,
                  msg |-> v.msg]
            ELSE [self |-> [v.self EXCEPT !.master_keys = test_keys,
                                          !.is_unlocked = TRUE],
                  ret |-> TRUE, msg |-> v.msg]

lock_vault_StayUnlocked(self) ==
    [self EXCEPT !.master_keys = NoKeys, !.user_salt = NoSalt, !.vault_id = NoVaultId]

lock_vault_KeepVaultId(self) ==
    [self EXCEPT !.is_unlocked = FALSE, !.master_keys = NoKeys, !.user_salt = NoSalt]

lock_vault(self) ==
    [self EXCEPT !.is_unlocked = FALSE, !.master_keys = NoKeys,
                 !.user_salt = NoSalt, !.vault_id = NoVaultId]

\* json.loads of the bytes json.dumps made of an object.
json_loads(bytes) == bytes.val

\* Lines 173-191 of encrypt_file: chunk the file under the file key and
\* encrypt the manifest under the metadata key.
encrypt_file_result(self, file_name, file, token, nonces, manifest_nonce) ==
    LET manifest == chunk_file(file_name, file, self.master_keys.file_encryption,
                               token, nonces)
    IN [file_manifest      |-> manifest,
        encrypted_manifest |-> encrypt_data(json_dumps("manifest", manifest),
                                            self.master_keys.metadata_encryption,
                                            manifest_nonce),
        total_chunks       |-> manifest.num_chunks,
        total_size         |-> manifest.file_size]

encrypt_file_KeysOnlyGuard(self, file_name, file, token, nonces, manifest_nonce) ==
    IF self.master_keys = NoKeys
    THEN Raise("Vault must be unlocked before encrypting files")
    ELSE IF ~file.exists
    THEN Raise("FileNotFoundError")
    ELSE Return(encrypt_file_result(self, file_name, file, token, nonces, manifest_nonce))

\* encrypt_file: the result dict, or the error raised.  token and nonces are
\* the random values chunk_file draws, manifest_nonce the nonce of the
\* encrypted manifest.
encrypt_file(self, file_name, file, token, nonces, manifest_nonce) ==
    IF ~self.is_unlocked \/ self.master_keys = NoKeys
    THEN Raise("Vault must be unlocked before encrypting files")
    ELSE IF ~file.exists
    THEN Raise("FileNotFoundError")
    ELSE Return(encrypt_file_result(self, file_name, file, token, nonces, manifest_nonce))

decrypt_file_MetadataKeyForChunks(self, encrypted_manifest, out) ==
    IF ~self.is_unlocked \/ self.master_keys = NoKeys
    THEN [err |-> "Vault must be unlocked before decrypting files", ret |-> FALSE,
          out |-> out]
    ELSE LET manifest_data == decrypt_data(encrypted_manifest.encrypted_manifest,
                                           self.master_keys.metadata_encryption)
         IN IF ~manifest_data.ok
            THEN [err |-> "", ret |-> FALSE, out |-> out]
            ELSE LET r == reconstruct_file(json_loads(manifest_data.data), out,
                                           self.master_keys.metadata_encryption)
                 IN [err |-> "", ret |-> r.ret, out |-> r.out]

\* decrypt_file: the error raised ("" if none), the value returned and the
\* file at output_path afterwards.  The argument is a dict: a record whose
\* DOMAIN is the set of its keys.
decrypt_file(self, encrypted_manifest, out) ==
    IF ~self.is_unlocked \/ self.master_keys = NoKeys
    THEN [err |-> "Vault must be unlocked before decrypting files", ret |-> FALSE,
          out |-> out]
    ELSE IF "encrypted_manifest" \in DOMAIN encrypted_manifest
    THEN LET manifest_data == decrypt_data(encrypted_manifest.encrypted_manifest,
                                           self.master_keys.metadata_encryption)
         IN IF ~manifest_data.ok
            THEN [err |-> "", ret |-> FALSE, out |-> out]
            ELSE IF json_loads_raises(manifest_data.data)
                    \/ manifest_data.data.kind # "manifest"
            THEN [err |-> "", ret |-> FALSE, out |-> out]
            ELSE LET r == reconstruct_file(json_loads(manifest_data.data), out,
                                           self.master_keys.file_encryption)
                 IN [err |-> "", ret |-> r.ret, out |-> r.out]
    ELSE LET r == reconstruct_file(encrypted_manifest.file_manifest, out,
                                   self.master_keys.file_encryption)
         IN [err |-> "", ret |-> r.ret, out |-> r.out]

(***************************************************************************)
(* BrontoBoxStorageManager.  An account's space is counted in the units    *)
(* in which a byte sequence's length is counted; a Drive object keeps the  *)
(* account it was uploaded to, its name, its properties and its bytes.     *)
(***************************************************************************)
NoAccount == 0

NoFileId == 0

SPACE_BUFFER == 1

Range(seq) == {seq[i] : i \in 1..Len(seq)}

\* A dict with key k set to v.
dict_set(d, k, v) == [x \in DOMAIN d \cup {k} |-> IF x = k THEN v ELSE d[x]]

\* d.get(k, default)
dict_get(d, k, default) == IF k \in DOMAIN d THEN d[k] ELSE default

\* len(chunk_data) of a ciphertext: the plaintext and the tag.
len_bytes(ciphertext) == Len(ciphertext.d.val) + 1

\* The account ids of get_available_accounts: most available space first,
\* accounts of equal space in the order of the account list.
RECURSIVE by_available_gb(_, _)
by_available_gb(accts, ids) ==
    IF ids = {} THEN <<>>
    ELSE LET first == CHOOSE a \in ids :
                        \A b \in ids : \/ accts[a] > accts[b]
                                       \/ (accts[a] = accts[b] /\ a <= b)
         IN <<first>> \o by_available_gb(accts, ids \ {first})

get_available_accounts_ByAccountId(accts) ==
    [i \in 1..Cardinality(DOMAIN accts) |->
        CHOOSE a \in DOMAIN accts : Cardinality({b \in DOMAIN accts : b < a}) = i - 1]

get_available_accounts(accts) == by_available_gb(accts, DOMAIN accts)

_select_account_for_chunk_NoExclusion(accts, chunk_size_bytes, exclude_accounts) ==
    LET available_accounts == get_available_accounts(accts)
        suitable(acc) == accts[acc] > chunk_size_bytes + SPACE_BUFFER
        suitable_accounts == SelectSeq(available_accounts, suitable)
    IN IF suitable_accounts = <<>> THEN NoAccount ELSE suitable_accounts[1]

_select_account_for_chunk(accts, chunk_size_bytes, exclude_accounts) ==
    LET available_accounts == get_available_accounts(accts)
        suitable(acc) == /\ acc \notin exclude_accounts
                         /\ accts[acc] > chunk_size_bytes + SPACE_BUFFER
        suitable_accounts == SelectSeq(available_accounts, suitable)
    IN IF suitable_accounts = <<>> THEN NoAccount ELSE suitable_accounts[1]

\* metadata['brontobox_file_id'][:20]: a prefix of the file id.
first20(file_id) == [first20 |-> file_id]

\* upload_chunk as Drive answers it: the object is created in the account,
\* with the compact properties, and takes its space.
upload_chunk(drv, account_id, chunk_data, chunk_name, metadata) ==
    Append(drv, [drive_account |-> account_id, name |-> chunk_name,
                 properties |-> [fid |-> first20(metadata.brontobox_file_id),
                                 idx |-> metadata.chunk_index],
                 data |-> chunk_data, deleted |-> FALSE])

\* One turn of the upload loop of store_file, for chunk i.  st holds what the
\* turn can touch: the registry, the Drive objects, the accounts,
\* uploaded_chunks, used_accounts and the error raised; fails tells that the
\* upload fails after its retries.
upload_step_RegisterAsUploaded(st, file_id, file_manifest, i, fails) ==
    LET chunk_info == file_manifest.chunks[i + 1]
        chunk_data == b64decode(chunk_info.encrypted_data.ciphertext)
        available == get_available_accounts(st.accounts)
    IN IF available = <<>>
       THEN [st EXCEPT !.err = "No available Google accounts with sufficient storage"]
       ELSE IF fails \/ st.accounts[available[1]] < len_bytes(chunk_data)
       THEN [st EXCEPT !.err = "upload failed"]
       ELSE LET placed == Append(st.uploaded_chunks,
                              [chunk_index |-> i, drive_file_id |-> Len(st.drive) + 1,
                               drive_account |-> available[1]])
            IN [st EXCEPT
                  !.drive = upload_chunk(st.drive, available[1], chunk_data,
                                         <<file_id, i>>,
                                         [brontobox_file_id |-> file_id,
                                          chunk_index |-> i]),
                  !.uploaded_chunks = placed,
                  !.stored_files = dict_set(@, file_id, [file_id |-> file_id,
                                                         chunks |-> placed])]

upload_step(st, file_id, file_manifest, i, fails) ==
    LET chunk_info == file_manifest.chunks[i + 1]
        chunk_data == b64decode(chunk_info.encrypted_data.ciphertext)
        selected == _select_account_for_chunk(st.accounts, len_bytes(chunk_data),
                        IF Len(st.used_accounts) < 2 THEN Range(st.used_accounts)
                        ELSE {})
        available == get_available_accounts(st.accounts)
    IN IF selected = NoAccount /\ available = <<>>
       THEN [st EXCEPT !.err = "No available Google accounts with sufficient storage"]
       ELSE
         LET account_id == IF selected # NoAccount THEN selected ELSE available[1]
             chunk_name == <<file_id, i, chunk_info.chunk_id>>
             chunk_metadata == [brontobox_file_id |-> file_id,
                                chunk_index       |-> i,
                                total_chunks      |-> Len(file_manifest.chunks),
                                chunk_hash        |-> chunk_info.chunk_hash,
                                original_filename |-> file_manifest.file_name]
         IN IF fails \/ st.accounts[account_id] < len_bytes(chunk_data)
            THEN [st EXCEPT !.err = "upload failed"]
            ELSE [st EXCEPT
                    !.drive = upload_chunk(st.drive, account_id, chunk_data,
                                           chunk_name, chunk_metadata),
                    !.accounts = [st.accounts EXCEPT
                                    ![account_id] = @ - len_bytes(chunk_data)],
                    !.uploaded_chunks = Append(st.uploaded_chunks,
                        [chunk_index     |-> i,
                         chunk_id        |-> chunk_info.chunk_id,
                         chunk_hash      |-> chunk_info.chunk_hash,
                         chunk_size      |-> len_bytes(chunk_data),
                         drive_file_id   |-> Len(st.drive) + 1,
                         drive_account   |-> account_id,
                         drive_file_name |-> chunk_name]),
                    !.used_accounts = IF account_id \in Range(st.used_accounts)
                                      THEN st.used_accounts
                                      ELSE Append(st.used_accounts, account_id)]

\* The upload loop of store_file from chunk i on; the upload of chunk fail_at
\* fails.
RECURSIVE upload_chunks(_, _, _, _, _)
upload_chunks(st, file_id, file_manifest, i, fail_at) ==
    IF i >= Len(file_manifest.chunks) \/ st.err # ""
    THEN st
    ELSE upload_chunks(upload_step(st, file_id, file_manifest, i, i = fail_at),
                       file_id, file_manifest, i + 1, fail_at)

\* Lines 271-291 of store_file: the checks and encrypt_file.
encrypt_for_store(self, file, token, nonces, manifest_nonce) ==
    IF ~self.is_unlocked
    THEN Raise("Vault must be unlocked to store files")
    ELSE IF ~file.exists
    THEN Raise("FileNotFoundError")
    ELSE encrypt_file(self, "src", file, token, nonces, manifest_nonce)

\* Lines 354-381 of store_file, after the loop: the StoredFile is made of
\* uploaded_chunks and put into the registry.
register_stored_file(st, file_id, encrypted_result) ==
    LET file_manifest == encrypted_result.file_manifest
        stored_file ==
            [file_id       |-> file_id,
             original_name |-> file_manifest.file_name,
             original_size |-> file_manifest.file_size,
             file_hash     |-> file_manifest.file_hash,
             chunks        |-> st.uploaded_chunks,
             metadata      |->
                 [encrypted_manifest |-> encrypted_result.encrypted_manifest,
                  chunk_size         |-> MaxChunkSize,
                  accounts_used      |-> st.used_accounts,
                  brontobox_version  |-> "1.0"]]
    IN [st EXCEPT !.stored_files = dict_set(st.stored_files, file_id, stored_file)]

\* store_file: the error raised ("" if none), the file id returned, and the
\* registry, the Drive objects and the accounts afterwards.
store_file(self, reg, drv, accts, file, token, nonces, manifest_nonce, fail_at) ==
    LET encrypted == encrypt_for_store(self, file, token, nonces, manifest_nonce)
    IN IF ~encrypted.ok
       THEN [err |-> encrypted.err, ret |-> NoFileId, stored_files |-> reg,
             drive |-> drv, accounts |-> accts]
       ELSE
         LET file_id == token
             entry == [stored_files |-> reg, drive |-> drv, accounts |-> accts,
                       uploaded_chunks |-> <<>>, used_accounts |-> <<>>, err |-> ""]
             st == upload_chunks(entry, file_id,
                                 encrypted.data.file_manifest, 0, fail_at)
             done == register_stored_file(st, file_id, encrypted.data)
         IN IF st.err # ""
            THEN [err |-> st.err, ret |-> NoFileId, stored_files |-> st.stored_files,
                  drive |-> st.drive, accounts |-> st.accounts]
            ELSE [err |-> "", ret |-> file_id, stored_files |-> done.stored_files,
                  drive |-> done.drive, accounts |-> done.accounts]

\* download_chunk of the chunk at position i of the entry: the object's
\* bytes, or the error raised when the download fails (position fail_at) or
\* the account holds no such object.
download_chunk(drv, chunk_info, i, fail_at) ==
    IF \/ i = fail_at
       \/ chunk_info.drive_file_id \notin DOMAIN drv
    THEN Raise("download failed")
    ELSE IF \/ drv[chunk_info.drive_file_id].drive_account # chunk_info.drive_account
            \/ drv[chunk_info.drive_file_id].deleted
    THEN Raise("download failed")
    ELSE Return(drv[chunk_info.drive_file_id].data)

\* Method 1: the value returned and the file at output_path afterwards.
_retrieve_with_manifest(self, stored_file, drv, out, fail_at) ==
    LET chunks == stored_file.chunks
        got(i) == download_chunk(drv, chunks[i], i, fail_at)
        encrypted_manifest == stored_file.metadata.encrypted_manifest
        manifest_json == decrypt_data(encrypted_manifest,
                                      self.master_keys.metadata_encryption)
    IN IF \E i \in 1..Len(chunks) : ~got(i).ok
       THEN [ret |-> FALSE, out |-> out]
       ELSE IF self.master_keys = NoKeys
       THEN [ret |-> FALSE, out |-> out]
       ELSE IF ~manifest_json.ok
       THEN [ret |-> FALSE, out |-> out]
       ELSE IF json_loads_raises(manifest_json.data)
               \/ manifest_json.data.kind # "manifest"
       THEN [ret |-> FALSE, out |-> out]
       ELSE
         LET loaded == json_loads(manifest_json.data)
             \* downloaded_chunks: chunk_index -> bytes, a later entry of
             \* the same index replacing an earlier one
             at(index) == CHOOSE i \in 1..Len(chunks) :
                             /\ chunks[i].chunk_index = index
                             /\ \A j \in 1..Len(chunks) :
                                   chunks[j].chunk_index = index => j <= i
             downloaded == {chunks[i].chunk_index : i \in 1..Len(chunks)}
             file_manifest ==
                 [loaded EXCEPT !.chunks =
                    [j \in 1..Len(loaded.chunks) |->
                       IF (j - 1) \in downloaded
                       THEN [loaded.chunks[j] EXCEPT !.encrypted_data.ciphertext =
                                b64encode(got(at(j - 1)).data)]
                       ELSE loaded.chunks[j]]]
             encrypted_result == [file_manifest      |-> file_manifest,
                                  encrypted_manifest |-> encrypted_manifest,
                                  total_chunks       |-> Len(file_manifest.chunks),
                                  total_size         |-> file_manifest.file_size]
             r == decrypt_file(self, encrypted_result, out)
         IN IF r.err # "" THEN [ret |-> FALSE, out |-> out]
            ELSE [ret |-> r.ret, out |-> r.out]

\* Methods 2 and 3: the downloaded bytes, concatenated (Method 2 in
\* chunk_index order, Method 3 in list order), are written as they are.
_retrieve_concatenated_RejectAltered(ordered, drv, out, fail_at) ==
    LET got(i) == download_chunk(drv, ordered[i], i, fail_at)
    IN IF \E i \in 1..Len(ordered) : ~got(i).ok \/ got(i).data.t # 0
       THEN [ret |-> FALSE, out |-> out]
       ELSE [ret |-> TRUE, out |-> File([i \in 1..Len(ordered) |-> got(i).data])]

_retrieve_concatenated(ordered, drv, out, fail_at) ==
    LET got(i) == download_chunk(drv, ordered[i], i, fail_at)
    IN IF \E i \in 1..Len(ordered) : ~got(i).ok
       THEN [ret |-> FALSE, out |-> out]
       ELSE [ret |-> TRUE, out |-> File([i \in 1..Len(ordered) |-> got(i).data])]

_retrieve_from_chunk_reconstruction(stored_file, drv, out, fail_at) ==
    _retrieve_concatenated(sorted_by_index(stored_file.chunks), drv, out, fail_at)

_retrieve_discovered_file(stored_file, drv, out, fail_at) ==
    _retrieve_concatenated(stored_file.chunks, drv, out, fail_at)

\* retrieve_file: the error raised ("" if none), the value returned, the
\* method taken and the file at output_path afterwards.
retrieve_file_ImportedWithChunks(self, reg, drv, file_id, out, fail_at) ==
    IF ~self.is_unlocked
    THEN [err |-> "Vault must be unlocked to retrieve files", ret |-> FALSE,
          method |-> 0, out |-> out]
    ELSE IF file_id \notin DOMAIN reg
    THEN [err |-> "", ret |-> FALSE, method |-> 0, out |-> out]
    ELSE
      LET stored_file == reg[file_id]
          is_discovered == dict_get(stored_file.metadata, "discovered_from_chunks", FALSE)
          is_imported == dict_get(stored_file.metadata, "imported_from_registry", FALSE)
          has_manifest == "encrypted_manifest" \in DOMAIN stored_file.metadata
          method == IF has_manifest /\ ~is_discovered THEN 1
                    ELSE IF is_imported /\ Len(stored_file.chunks) > 0 THEN 2
                    ELSE 3
          r == IF method = 1
               THEN _retrieve_with_manifest(self, stored_file, drv, out, fail_at)
               ELSE IF method = 2
               THEN _retrieve_from_chunk_reconstruction(stored_file, drv, out, fail_at)
               ELSE _retrieve_discovered_file(stored_file, drv, out, fail_at)
      IN [err |-> "", ret |-> r.ret, method |-> method, out |-> r.out]

retrieve_file(self, reg, drv, file_id, out, fail_at) ==
    IF ~self.is_unlocked
    THEN [err |-> "Vault must be unlocked to retrieve files", ret |-> FALSE,
          method |-> 0, out |-> out]
    ELSE IF file_id \notin DOMAIN reg
    THEN [err |-> "", ret |-> FALSE, method |-> 0, out |-> out]
    ELSE
      LET stored_file == reg[file_id]
          is_discovered == dict_get(stored_file.metadata, "discovered_from_chunks", FALSE)
          is_imported == dict_get(stored_file.metadata, "imported_from_registry", FALSE)
          has_manifest == "encrypted_manifest" \in DOMAIN stored_file.metadata
          method == IF has_manifest /\ ~is_discovered THEN 1
                    ELSE IF is_imported \/ Len(stored_file.chunks) > 0 THEN 2
                    ELSE 3
          r == IF method = 1
               THEN _retrieve_with_manifest(self, stored_file, drv, out, fail_at)
               ELSE IF method = 2
               THEN _retrieve_from_chunk_reconstruction(stored_file, drv, out, fail_at)
               ELSE _retrieve_discovered_file(stored_file, drv, out, fail_at)
      IN [err |-> "", ret |-> r.ret, method |-> method, out |-> r.out]

\* delete_chunk: whether Drive deleted the object, and the Drive objects and
\* the accounts afterwards.  The request fails when fails is TRUE or the
\* account holds no such object; a deleted object gives its space back.
delete_chunk(drv, accts, account_id, drive_file_id, fails) ==
    IF \/ fails
       \/ drive_file_id \notin DOMAIN drv
    THEN [ok |-> FALSE, drive |-> drv, accounts |-> accts]
    ELSE IF drv[drive_file_id].drive_account # account_id \/ drv[drive_file_id].deleted
    THEN [ok |-> FALSE, drive |-> drv, accounts |-> accts]
    ELSE [ok |-> TRUE,
          drive |-> [drv EXCEPT ![drive_file_id].deleted = TRUE],
          accounts |-> IF account_id \in DOMAIN accts
                       THEN [accts EXCEPT ![account_id] =
                                @ + len_bytes(drv[drive_file_id].data)]
                       ELSE accts]

\* The loop of delete_file from position i of the entry's chunks on: st holds
\* the Drive objects, the accounts and deleted_chunks; the requests at the
\* positions of failing fail.
RECURSIVE delete_chunks(_, _, _, _)
delete_chunks(st, chunks, i, failing) ==
    IF i > Len(chunks)
    THEN st
    ELSE LET r == delete_chunk(st.drive, st.accounts, chunks[i].drive_account,
                               chunks[i].drive_file_id, i \in failing)
         IN delete_chunks([drive |-> r.drive, accounts |-> r.accounts,
                           deleted_chunks |-> st.deleted_chunks
                                              + (IF r.ok THEN 1 ELSE 0)],
                          chunks, i + 1, failing)

\* delete_file: the error raised ("" if none), the value returned, the number
\* of chunks deleted, and the registry, the Drive objects and the accounts
\* afterwards.
delete_file(self, reg, drv, accts, file_id, failing) ==
    IF file_id \notin DOMAIN reg
    THEN [err |-> "", ret |-> FALSE, deleted_chunks |-> 0, stored_files |-> reg,
          drive |-> drv, accounts |-> accts]
    ELSE LET stored_file == reg[file_id]
             st == delete_chunks([drive |-> drv, accounts |-> accts,
                                  deleted_chunks |-> 0],
                                 stored_file.chunks, 1, failing)
         IN [err |-> "", ret |-> st.deleted_chunks = Len(stored_file.chunks),
             deleted_chunks |-> st.deleted_chunks,
             stored_files |-> [f \in DOMAIN reg \ {file_id} |-> reg[f]],
             drive |-> st.drive, accounts |-> st.accounts]

\* list_chunks(account_id): the DriveFiles of the account's objects that are
\* not deleted, in the order of their names (orderBy='name'); a name is
\* the file id, the zero-padded chunk number and the chunk id.  A
\* DriveFile's metadata are the object's properties.
RECURSIVE by_name(_, _)
by_name(drv, ids) ==
    IF ids = {} THEN <<>>
    ELSE LET first == CHOOSE d \in ids : \A e \in ids :
                         \/ drv[d].name[1] < drv[e].name[1]
                         \/ /\ drv[d].name[1] = drv[e].name[1]
                            /\ \/ drv[d].name[2] < drv[e].name[2]
                               \/ (drv[d].name[2] = drv[e].name[2] /\ d <= e)
         IN <<[file_id       |-> first,
               name          |-> drv[first].name,
               size          |-> len_bytes(drv[first].data),
               drive_account |-> drv[first].drive_account,
               metadata      |-> drv[first].properties]>>
            \o by_name(drv, ids \ {first})

list_chunks(drv, account_id) ==
    by_name(drv, {d \in DOMAIN drv : drv[d].drive_account = account_id
                                      /\ ~drv[d].deleted})

_extract_file_id_from_chunk_NextId(chunk) == chunk.name[1] + 1

\* The metadata have no 'brontobox_file_id' (the properties are fid and
\* idx), so the id is the one matched in the name.
_extract_file_id_from_chunk(chunk) ==
    IF "brontobox_file_id" \in DOMAIN chunk.metadata
    THEN chunk.metadata.brontobox_file_id
    ELSE chunk.name[1]

\* file_groups: file id -> the chunks of that id, in list order.
_group_chunks_by_file_id(chunks) ==
    [f \in {_extract_file_id_from_chunk(chunks[i]) : i \in 1..Len(chunks)} |->
        SelectSeq(chunks, LAMBDA c : _extract_file_id_from_chunk(c) = f)]

RECURSIVE sum_sizes(_)
sum_sizes(chunks) ==
    IF chunks = <<>> THEN 0 ELSE Head(chunks).size + sum_sizes(Tail(chunks))

\* The StoredFile made of a group; chunk_id f'chunk_{i}' is <<0, i>>.  The
\* chunks are sorted by metadata.get('chunk_index', 0), a stable sort.
_reconstruct_file_from_chunks(file_id, chunks) ==
    LET keyed == [i \in 1..Len(chunks) |->
                    [chunk_index |-> dict_get(chunks[i].metadata, "chunk_index", 0),
                     chunk       |-> chunks[i]]]
        sorted_chunks == [i \in 1..Len(chunks) |-> sorted_by_index(keyed)[i].chunk]
    IN [file_id       |-> file_id,
        original_name |-> dict_get(sorted_chunks[1].metadata, "original_filename",
                                   "Unknown File"),
        original_size |-> sum_sizes(chunks),
        file_hash     |-> [sha256 |-> <<>>, empty |-> TRUE],
        chunks        |-> [i \in 1..Len(sorted_chunks) |->
                             [chunk_index     |-> i - 1,
                              chunk_id        |-> <<0, i - 1>>,
                              chunk_hash      |-> [sha256 |-> <<>>, empty |-> TRUE],
                              chunk_size      |-> sorted_chunks[i].size,
                              drive_file_id   |-> sorted_chunks[i].file_id,
                              drive_account   |-> sorted_chunks[i].drive_account,
                              drive_file_name |-> sorted_chunks[i].name]],
        metadata      |-> [discovered_from_chunks |-> TRUE,
                           accounts_used     |-> {chunks[i].drive_account :
                                                    i \in 1..Len(chunks)},
                           total_chunks      |-> Len(chunks),
                           brontobox_version |-> "1.0"]]

discover_group_Overwrite(reg, file_id, chunk_list) ==
    dict_set(reg, file_id, _reconstruct_file_from_chunks(file_id, chunk_list))

\* Lines 99-106 of auto_scan_existing_files, for one group of one account.
discover_group(reg, file_id, chunk_list) ==
    IF file_id \in DOMAIN reg
    THEN reg
    ELSE dict_set(reg, file_id, _reconstruct_file_from_chunks(file_id, chunk_list))

\* The groups of one account, taken in the order of their first chunk.
RECURSIVE discover_groups(_, _, _)
discover_groups(reg, file_groups, ids) ==
    IF ids = {} THEN reg
    ELSE LET f == CHOOSE x \in ids : \A y \in ids : x <= y
         IN discover_groups(discover_group(reg, f, file_groups[f]), file_groups,
                            ids \ {f})

\* The loop of auto_scan_existing_files over the accounts from position i.
RECURSIVE scan_accounts(_, _, _, _)
scan_accounts(reg, drv, available_accounts, i) ==
    IF i > Len(available_accounts) THEN reg
    ELSE LET file_groups == _group_chunks_by_file_id(
                                list_chunks(drv, available_accounts[i]))
         IN scan_accounts(discover_groups(reg, file_groups, DOMAIN file_groups),
                          drv, available_accounts, i + 1)

\* auto_scan_existing_files: the registry afterwards.
auto_scan_existing_files(self, reg, drv, accts) ==
    IF ~self.is_unlocked
    THEN reg
    ELSE scan_accounts(reg, drv, get_available_accounts(accts), 1)

\* refresh_file_discovery: the registry afterwards.
refresh_file_discovery(self, reg, drv, accts) ==
    LET kept == {f \in DOMAIN reg :
                   ~dict_get(reg[f].metadata, "discovered_from_chunks", FALSE)}
    IN auto_scan_existing_files(self, [f \in kept |-> reg[f]], drv, accts)

\* save_file_registry: the encrypted registry, or the error raised.
save_file_registry(self, reg, nonce) ==
    IF ~self.is_unlocked
    THEN Raise("Vault must be unlocked to save registry")
    ELSE IF self.master_keys = NoKeys
    THEN Raise("TypeError")
    ELSE Return(encrypt_data(json_dumps("registry",
                                        [stored_files      |-> reg,
                                         brontobox_version |-> "1.0"]),
                             self.master_keys.metadata_encryption, nonce))

\* The StoredFile load_file_registry makes of a saved entry.
imported_file(file_data) ==
    LET marked == dict_set(dict_set(file_data.metadata, "discovered_from_chunks", FALSE),
                           "imported_from_registry", TRUE)
    IN [file_data EXCEPT !.metadata =
          IF "encrypted_manifest" \in DOMAIN file_data.metadata
          THEN marked
          ELSE dict_set(dict_set(marked, "discovered_from_chunks", TRUE),
                        "needs_alternative_retrieval", TRUE)]

\* StoredFile.from_dict raises KeyError when a key is missing.
from_dict_raises(file_data) ==
    ~({"file_id", "original_name", "original_size", "file_hash", "chunks", "metadata"}
        \subseteq DOMAIN file_data)

load_file_registry_ClearFirst(self, reg, encrypted_registry) ==
    IF ~self.is_unlocked
    THEN [err |-> "Vault must be unlocked to load registry", ret |-> FALSE,
          stored_files |-> reg]
    ELSE IF self.master_keys = NoKeys
    THEN [err |-> "", ret |-> FALSE, stored_files |-> [f \in {} |-> 0]]
    ELSE
      LET registry_json == decrypt_data(encrypted_registry,
                                        self.master_keys.metadata_encryption)
          saved == json_loads(registry_json.data).stored_files
      IN IF ~registry_json.ok
         THEN [err |-> "", ret |-> FALSE, stored_files |-> [f \in {} |-> 0]]
         ELSE IF \/ registry_json.data.kind # "registry"
                 \/ \E f \in DOMAIN saved : from_dict_raises(saved[f])
         THEN [err |-> "", ret |-> FALSE, stored_files |-> [f \in {} |-> 0]]
         ELSE [err |-> "", ret |-> TRUE,
               stored_files |-> [f \in DOMAIN saved |-> imported_file(saved[f])]]

load_file_registry_Merge(self, reg, encrypted_registry) ==
    IF ~self.is_unlocked
    THEN [err |-> "Vault must be unlocked to load registry", ret |-> FALSE,
          stored_files |-> reg]
    ELSE
      LET registry_json == decrypt_data(encrypted_registry,
                                        self.master_keys.metadata_encryption)
          saved == json_loads(registry_json.data).stored_files
      IN IF self.master_keys = NoKeys
         THEN [err |-> "", ret |-> FALSE, stored_files |-> reg]
         ELSE IF ~registry_json.ok
         THEN [err |-> "", ret |-> FALSE, stored_files |-> reg]
         ELSE IF \/ registry_json.data.kind # "registry"
                 \/ \E f \in DOMAIN saved : from_dict_raises(saved[f])
         THEN [err |-> "", ret |-> FALSE, stored_files |-> reg]
         ELSE [err |-> "", ret |-> TRUE,
               stored_files |-> [f \in DOMAIN saved \cup DOMAIN reg |->
                                   IF f \in DOMAIN saved THEN imported_file(saved[f])
                                   ELSE reg[f]]]

\* load_file_registry: the error raised ("" if none), the value returned and
\* the registry afterwards.
load_file_registry(self, reg, encrypted_registry) ==
    IF ~self.is_unlocked
    THEN [err |-> "Vault must be unlocked to load registry", ret |-> FALSE,
          stored_files |-> reg]
    ELSE IF self.master_keys = NoKeys
    THEN [err |-> "", ret |-> FALSE, stored_files |-> reg]
    ELSE
      LET registry_json == decrypt_data(encrypted_registry,
                                        self.master_keys.metadata_encryption)
      IN IF ~registry_json.ok
         THEN [err |-> "", ret |-> FALSE, stored_files |-> reg]
         ELSE IF json_loads_raises(registry_json.data)
                 \/ registry_json.data.kind # "registry"
         THEN [err |-> "", ret |-> FALSE, stored_files |-> reg]
         ELSE IF "stored_files" \notin DOMAIN json_loads(registry_json.data)
         THEN [err |-> "", ret |-> FALSE, stored_files |-> reg]
         ELSE LET saved == json_loads(registry_json.data).stored_files
              IN IF \E f \in DOMAIN saved : from_dict_raises(saved[f])
                 THEN [err |-> "", ret |-> FALSE, stored_files |-> reg]
                 ELSE [err |-> "", ret |-> TRUE,
                       stored_files |->
                           [f \in DOMAIN saved |-> imported_file(saved[f])]]

(***************************************************************************)
(* No storage manager: nothing stored, nothing uploaded, no account.       *)
(***************************************************************************)
NoStoredFiles == [f \in {} |-> 0]

NoAccounts == [a \in {} |-> 0]

\* No store_file call in progress.
NoCall == [pc |-> "idle"]

\* GoogleAuthManager.__init__: no authentication in progress, none made yet.
NewGoogleAuthManager == [_auth_in_progress |-> FALSE, _last_auth_time |-> 0]

\* The threads that call authenticate_new_account on the one manager.
Callers == {1, 2}

NoStorage ==
    /\ storing = NoCall
    /\ auth_calls = [c \in Callers |-> "idle"]
    /\ auth_manager = NewGoogleAuthManager
    /\ stored_files = NoStoredFiles
    /\ drive = <<>>
    /\ accounts = NoAccounts
    /\ next_token = 1
    /\ saved_registry = {}

(***************************************************************************)
(* What a caller can hand to decrypt_data or unlock_vault: a blob as it    *)
(* was returned, or with one field altered in storage or in transit.       *)
(***************************************************************************)
TamperedBlobs(blob, keys) ==
    {blob}
    \cup {[blob EXCEPT !.ciphertext.form = f] : f \in {1, 2}}
    \cup {[blob EXCEPT !.ciphertext.b.t = 1]}
    \cup {[blob EXCEPT !.nonce.form = f] : f \in {1, 2}}
    \cup {[blob EXCEPT !.nonce.b = n] : n \in Nonces \ {blob.nonce.b}}
    \cup {[blob EXCEPT !.key_id = NoKeyId]}
    \cup {[blob EXCEPT !.key_id = key_fingerprint(k)] : k \in keys}

\* The arguments of an unlock_vault call: a persisted record's salt and
\* verification data with at most one of them altered, any salt with no
\* verification data, or a salt with crafted verification data.
UnlockInputs(master_password) ==
    LET SaltTexts == {[b |-> s, form |-> f] : s \in Salts, f \in {0, 1}}
                     \cup {[b |-> 1, form |-> 2]}
        CraftedVerification(salt) ==
            LET key == derive_master_keys(master_password, salt).vault_unlock
                good == [prefix |-> VERIFICATION_PREFIX, vault_id |-> salt,
                         version |-> VERIFICATION_VERSION,
                         password_hash |-> password_hash(master_password)]
            IN {encrypt_data(d, key, 1) :
                  d \in {json_dumps("verification", [good EXCEPT !.prefix = "VAULTDRIVE_"]),
                         json_dumps("verification", [good EXCEPT !.version = "0.9"]),
                         json_dumps("other", 0),
                         raw_bytes(<<0>>)}
                       \cup {json_dumps("verification",
                                        [good EXCEPT !.password_hash = password_hash(q)]) :
                               q \in Passwords \ {master_password}}}
    IN
    UNION {LET r == vault_store[i]
               keys == {derive_master_keys(q, b64decode(r.salt)).vault_unlock :
                          q \in Passwords}
           IN {<<sb, {r.verification_data}>> : sb \in SaltTexts}
              \cup {<<r.salt, {b}>> : b \in TamperedBlobs(r.verification_data, keys)} :
           i \in 1..Len(vault_store)}
    \cup {<<sb, {}>> : sb \in SaltTexts}
    \cup UNION {{<<b64encode(s), {b}>> : b \in CraftedVerification(s)} :
                s \in Salts}

(***************************************************************************)
(* The vault state machine: one VaultCore instance at a time, the vault    *)
(* records persisted by the caller, and a fresh instance per session.      *)
(* last keeps the call (prev: the call before it, if that was a lock or a  *)
(* construction), its password, the record it was given, what it printed   *)
(* and what it returned.                                                   *)
(***************************************************************************)
Call(op, master_password, given, with_data, msg, ret) ==
    [op |-> op,
     prev |-> IF last.op \in {"lock_vault", "new_instance"} THEN last.op ELSE "other",
     password |-> master_password, given |-> given,
     with_data |-> with_data, msg |-> msg, ret |-> ret]

InitVault ==
    /\ vault = NewVaultCore
    /\ vault_store = <<>>
    /\ enc_log = {}
    /\ files = NoFiles
    /\ chunked = {}
    /\ NoStorage
    /\ last = [op |-> "new_instance", prev |-> "none", password |-> 0, given |-> 0,
               with_data |-> FALSE, msg |-> "", ret |-> TRUE]

\* vault = VaultCore()
NewInstance ==
    /\ vault' = NewVaultCore
    /\ last' = Call("new_instance", 0, 0, FALSE, "", TRUE)
    /\ UNCHANGED <<callVars, vault_store, enc_log, files, chunked, stored_files, drive, accounts, next_token, saved_registry>>

\* The salt, the vault id and the nonce are fresh: those of the i-th vault are i.
InitializeVault(master_password) ==
    /\ Len(vault_store) < MaxVaults
    /\ LET fresh == Len(vault_store) + 1
           r == initialize_vault(vault, master_password, fresh, fresh, fresh)
       IN /\ vault' = r.self
          /\ vault_store' = Append(vault_store,
                 [vault_id |-> r.ret.vault_id, salt |-> r.ret.salt,
                  verification_data |-> r.ret.verification_data,
                  password |-> master_password, keys |-> r.self.master_keys])
          /\ last' = Call("initialize_vault", master_password, 0, FALSE, "", TRUE)
    /\ UNCHANGED <<callVars, enc_log, files, chunked, stored_files, drive, accounts, next_token, saved_registry>>

UnlockVault(master_password, salt_b64, verification_data) ==
    /\ LET r == unlock_vault(vault, master_password, salt_b64, verification_data)
           \* the vault records whose salt and verification data are the arguments
           hits == {i \in 1..Len(vault_store) :
                      /\ vault_store[i].salt = salt_b64
                      /\ verification_data = {vault_store[i].verification_data}}
       IN /\ vault' = r.self
          /\ last' = Call("unlock_vault", master_password,
                          IF hits = {} THEN 0 ELSE CHOOSE i \in hits : TRUE,
                          verification_data # {}, r.msg, r.ret)
    /\ UNCHANGED <<callVars, vault_store, enc_log, files, chunked, stored_files, drive, accounts, next_token, saved_registry>>

LockVault ==
    /\ vault' = lock_vault(vault)
    /\ last' = Call("lock_vault", 0, 0, FALSE, "", TRUE)
    /\ UNCHANGED <<callVars, vault_store, enc_log, files, chunked, stored_files, drive, accounts, next_token, saved_registry>>

NextVault ==
    \/ NewInstance
    \/ \E p \in Passwords : InitializeVault(p)
    \/ \E p \in Passwords : \E in \in UnlockInputs(p) : UnlockVault(p, in[1], in[2])
    \/ LockVault

SpecVault == InitVault /\ [][NextVault]_vars

(***************************************************************************)
(* Claims about the vault state machine (SpecVault).                       *)
(***************************************************************************)

\* C2: an unlock_vault call given the salt S and the verification data V that
\* initialize_vault(p1) returned returns True exactly when its password is
\* p1, and then the vault is Unlocked; for every other password it returns
\* False.
C2_WrongPasswordRejected ==
    (last.op = "unlock_vault" /\ last.given # 0) =>
        /\ last.ret = (last.password = vault_store[last.given].password)
        /\ (last.ret => vault.is_unlocked)

C2_Witness ==
    /\ last.op = "unlock_vault"
    /\ last.given # 0
    /\ last.password # vault_store[last.given].password
    /\ ~last.ret

\* C3: a step that is an unlock_vault call returning False (whatever check
\* failed) ends with is_unlocked False and with master_keys and vault_id as
\* they were before the call.
C3_FailedUnlockStoresNoKeys ==
    [][(last'.op = "unlock_vault" /\ ~last'.ret) =>
          /\ ~vault'.is_unlocked
          /\ vault'.master_keys = vault.master_keys
          /\ vault'.vault_id = vault.vault_id]_vars

C3_Witness ==
    /\ last.op = "unlock_vault"
    /\ ~last.ret
    /\ last.msg = "Password hash mismatch"
    /\ ~vault.is_unlocked
    /\ vault.master_keys = NoKeys

\* C4: whenever is_unlocked is False, master_keys is None.
C4_KeysOnlyWhileUnlocked ==
    ~vault.is_unlocked => vault.master_keys = NoKeys

\* C5: after lock_vault, called in any state, is_unlocked is False and
\* master_keys, user_salt and vault_id are None; a second lock_vault right
\* after the first ends in that same state.
C5_LockClearsEverything ==
    last.op = "lock_vault" =>
        /\ last.ret
        /\ ~vault.is_unlocked
        /\ vault.master_keys = NoKeys
        /\ vault.user_salt = NoSalt
        /\ vault.vault_id = NoVaultId

C5_Witness ==
    /\ last.op = "lock_vault"
    /\ last.prev = "lock_vault"
    /\ vault = NewVaultCore

\* C7: an unlock_vault call with the password, salt and verification data of
\* an initialized vault ends Unlocked with the four keys and the vault_id of
\* the initialization, also on a fresh instance, and a blob encrypted under
\* the file key of the first session decrypts under the file key of this one.
C7_ReunlockSameKeys ==
    (/\ last.op = "unlock_vault"
     /\ last.given # 0
     /\ last.password = vault_store[last.given].password) =>
        LET r == vault_store[last.given]
        IN /\ vault.is_unlocked
           /\ vault.master_keys = r.keys
           /\ vault.vault_id = r.vault_id
           /\ \A n \in Nonces :
                decrypt_data(encrypt_data(raw_bytes(<<1, 0>>), r.keys.file_encryption, n),
                             vault.master_keys.file_encryption)
                  = Return(raw_bytes(<<1, 0>>))

C7_Witness ==
    /\ last.op = "unlock_vault"
    /\ last.prev = "new_instance"
    /\ last.given = 1
    /\ Len(vault_store) = 2
    /\ last.password = vault_store[1].password
    /\ vault.is_unlocked
    /\ vault.vault_id = 1

\* C32: an initialize_vault call on an instance that is unlocked (it was
\* initialized or unlocked before) is rejected, and master_keys, user_salt
\* and vault_id stay as they were.
C32_InitializeOnlyWhenFresh ==
    [][(last'.op = "initialize_vault" /\ vault.is_unlocked) =>
          /\ ~last'.ret
          /\ vault'.master_keys = vault.master_keys
          /\ vault'.user_salt = vault.user_salt
          /\ vault'.vault_id = vault.vault_id]_vars

\* C33: an unlock_vault call made right after lock_vault, with the salt of an
\* initialized vault and no verification data, returns True exactly when its
\* password is the one the vault was initialized with.
C33_WrongPasswordWithoutData ==
    (last.op = "unlock_vault" /\ last.prev = "lock_vault" /\ ~last.with_data) =>
        \A i \in 1..Len(vault_store) :
            b64decode(vault_store[i].salt) = vault.user_salt =>
                last.ret = (last.password = vault_store[i].password)

\* C36: whenever is_unlocked is True, master_keys holds the four keys.
C36_UnlockedHasFourKeys ==
    vault.is_unlocked =>
        \A k \in {"file_encryption", "metadata_encryption", "vault_unlock",
                  "token_encryption"} : vault.master_keys[k] # NoKey

\* Unlocked by unlock_vault on a new instance, and by initialize_vault after
\* a failed unlock.
C36_Witness ==
    /\ vault.is_unlocked
    /\ \/ last.op = "unlock_vault" /\ last.prev = "new_instance"
       \/ last.op = "initialize_vault" /\ Len(vault_store) = 2

\* C37: whenever is_unlocked is True, vault_id is set.
C37_UnlockedHasVaultId ==
    vault.is_unlocked => vault.vault_id # NoVaultId

(***************************************************************************)
(* encrypt_data and decrypt_data on their own: blobs are encrypted under   *)
(* a few keys, and decrypt_data is called on a logged blob with one field  *)
(* altered, or with a field of another logged blob, under any of the keys. *)
(***************************************************************************)
CryptoKeys == {derive_master_keys(p, 1).file_encryption : p \in Passwords}

InitCrypto ==
    /\ vault = NewVaultCore
    /\ vault_store = <<>>
    /\ enc_log = {}
    /\ files = NoFiles
    /\ chunked = {}
    /\ NoStorage
    /\ last = [op |-> "none"]

EncryptData(data, key, nonce) ==
    /\ Cardinality(enc_log) < MaxBlobs
    /\ LET blob == encrypt_data(data, key, nonce)
       IN /\ enc_log' = enc_log \cup {[key |-> key, data |-> data, blob |-> blob]}
          /\ last' = [op |-> "encrypt_data", blob |-> blob, key |-> key,
                      result |-> Return(data)]
    /\ UNCHANGED <<callVars, vault, vault_store, files, chunked, stored_files, drive, accounts, next_token, saved_registry>>

DecryptData(blob, key) ==
    /\ last' = [op |-> "decrypt_data", blob |-> blob, key |-> key,
                result |-> decrypt_data(blob, key)]
    /\ UNCHANGED <<callVars, vault, vault_store, enc_log, files, chunked, stored_files, drive, accounts, next_token, saved_registry>>

NextCrypto ==
    \/ \E d \in {raw_bytes(<<0>>), raw_bytes(<<1>>)}, k \in CryptoKeys, n \in Nonces : EncryptData(d, k, n)
    \/ \E b \in UNION {TamperedBlobs(e.blob, CryptoKeys) : e \in enc_log}
                \cup {[e1.blob EXCEPT !.nonce = e2.blob.nonce] :
                        e1 \in enc_log, e2 \in enc_log}
                \cup {[e1.blob EXCEPT !.key_id = e2.blob.key_id,
                                      !.nonce = e2.blob.nonce] :
                        e1 \in enc_log, e2 \in enc_log},
          k \in CryptoKeys : DecryptData(b, k)

SpecCrypto == InitCrypto /\ [][NextCrypto]_vars

\* C8 as stated: decrypt_data returns a plaintext only for a blob whose
\* ciphertext and nonce fields are those encrypt_data returned under that key.
C8_OnlyUnalteredBlobsDecrypt ==
    (last.op = "decrypt_data" /\ last.result.ok) =>
        \E e \in enc_log : /\ e.key = last.key
                           /\ e.blob.ciphertext = last.blob.ciphertext
                           /\ e.blob.nonce = last.blob.nonce

\* C8, amended: decrypt_data returns a plaintext only for a blob whose
\* ciphertext and nonce decode to the bytes encrypt_data produced under that
\* key, and what it returns is the data that was encrypted; it never returns
\* a wrong plaintext.
C8_NoWrongPlaintext ==
    (last.op = "decrypt_data" /\ last.result.ok) =>
        \E e \in enc_log : /\ e.key = last.key
                           /\ b64decode(e.blob.ciphertext) = b64decode(last.blob.ciphertext)
                           /\ b64decode(e.blob.nonce) = b64decode(last.blob.nonce)
                           /\ last.result.data = e.data

C8_Witness ==
    /\ last.op = "decrypt_data"
    /\ last.blob.key_id = key_fingerprint(last.key)
    /\ last.blob.ciphertext.b.t = 1
    /\ last.blob.ciphertext.b.k = last.key
    /\ ~last.result.ok
    /\ last.result.err = "InvalidTag"

\* C9: decrypt_data called with a key whose fingerprint is not the blob's
\* key_id (a blob without key_id included) raises and returns no plaintext.
C9_KeyIdMismatchFailsClosed ==
    (last.op = "decrypt_data" /\ last.blob.key_id # key_fingerprint(last.key)) =>
        /\ ~last.result.ok
        /\ last.result.data = NoData

C9_Witness ==
    /\ last.op = "decrypt_data"
    /\ last.blob.key_id # key_fingerprint(last.key)
    /\ last.blob.key_id # NoKeyId
    /\ AESGCM_decrypt(last.key, b64decode(last.blob.nonce),
                      b64decode(last.blob.ciphertext)).ok
    /\ last.result = Raise("Invalid decryption key")

(***************************************************************************)
(* chunk_file and reconstruct_file on their own: a file of any content is  *)
(* chunked under a key, and the manifest is reconstructed under any key.   *)
(***************************************************************************)
MaxChunks == calculate_chunks_needed(MaxFileLen)

ChunkNonces == [0..(MaxChunks - 1) -> Nonces]

InitChunk ==
    /\ vault = NewVaultCore
    /\ vault_store = <<>>
    /\ enc_log = {}
    /\ \E c \in UNION {[1..n -> {0, 1}] : n \in 0..MaxFileLen} : files = [NoFiles EXCEPT !["src"] = File(c)]
    /\ chunked = {}
    /\ NoStorage
    /\ last = [op |-> "none"]

ChunkFile(encryption_key, nonces) ==
    /\ chunked = {}
    /\ files["src"].exists
    /\ LET manifest == chunk_file("src", files["src"], encryption_key, 1, nonces)
       IN /\ chunked' = {[manifest |-> manifest, key |-> encryption_key]}
          /\ last' = [op |-> "chunk_file", manifest |-> manifest, key |-> encryption_key,
                      ret |-> TRUE]
    /\ UNCHANGED <<callVars, vault, vault_store, enc_log, files, stored_files, drive, accounts, next_token, saved_registry>>

ReconstructFile(manifest, encryption_key) ==
    /\ LET r == reconstruct_file(manifest, files["out"], encryption_key)
       IN /\ files' = [files EXCEPT !["out"] = r.out]
          /\ last' = [op |-> "reconstruct_file", manifest |-> manifest,
                      key |-> encryption_key, ret |-> r.ret]
    /\ UNCHANGED <<callVars, vault, vault_store, enc_log, chunked, stored_files, drive, accounts, next_token, saved_registry>>

NextChunk ==
    \/ \E k \in CryptoKeys, nonces \in ChunkNonces : ChunkFile(k, nonces)
    \/ \E c \in chunked, k \in CryptoKeys : ReconstructFile(c.manifest, k)

SpecChunk == InitChunk /\ [][NextChunk]_vars

\* C1: reconstruct_file applied to the manifest chunk_file returned, with the
\* key chunk_file was given, returns True and leaves at the output path
\* exactly the bytes of the file that was chunked, whatever its length.
C1_RoundTrip ==
    (/\ last.op = "reconstruct_file"
     /\ \E c \in chunked : c.manifest = last.manifest /\ c.key = last.key) =>
        /\ last.ret
        /\ files["out"] = File(files["src"].data)

C1_Witness ==
    /\ last.op = "reconstruct_file"
    /\ \E c \in chunked : c.manifest = last.manifest /\ c.key = last.key
    /\ last.manifest.num_chunks > 1
    /\ Len(files["src"].data) % MaxChunkSize # 0
    /\ last.ret
    /\ files["out"] = File(files["src"].data)

(***************************************************************************)
(* reconstruct_file on manifests that are not as chunk_file returned them: *)
(* a chunk_index changed (to a gap, a duplicate or another order), a chunk *)
(* dropped, a chunk_hash or the file_hash replaced, a ciphertext altered.  *)
(***************************************************************************)
ManifestVariants(manifest) ==
    LET n == Len(manifest.chunks)
        other_hash(h) == IF h = sha256_hex(<<>>) THEN sha256_hex(<<0>>)
                         ELSE sha256_hex(<<>>)
    IN {manifest}
       \cup {[manifest EXCEPT !.chunks[j].chunk_index = k] : j \in 1..n, k \in 0..n}
       \cup {[manifest EXCEPT !.chunks = [i \in 1..(n - 1) |->
                                       IF i < j THEN @[i] ELSE @[i + 1]]] : j \in 1..n}
       \cup {[manifest EXCEPT !.chunks[j].chunk_hash = other_hash(@)] : j \in 1..n}
       \cup {[manifest EXCEPT !.chunks[j].encrypted_data.ciphertext.b.t = 1] :
               j \in 1..n}
       \cup {[manifest EXCEPT !.file_hash = other_hash(@)]}

NextReconstruct ==
    \/ \E k \in CryptoKeys, nonces \in ChunkNonces : ChunkFile(k, nonces)
    \/ \E c \in chunked, k \in CryptoKeys :
          \E manifest \in ManifestVariants(c.manifest) : ReconstructFile(manifest, k)

SpecReconstruct == InitChunk /\ [][NextReconstruct]_vars

\* Some chunk of the manifest does not decrypt under the key or does not
\* match its chunk_hash.
ChunkCheckFails(manifest, encryption_key) ==
    \E j \in 1..Len(manifest.chunks) :
        LET d == decrypt_data(manifest.chunks[j].encrypted_data, encryption_key)
        IN ~d.ok \/ sha256_hex(d.data.val) # manifest.chunks[j].chunk_hash

\* C24: reconstruct_file returns False for every manifest whose chunk
\* indices are not exactly 0..n-1 (a gap or a duplicate), also when each
\* chunk decrypts and matches its chunk_hash.
C24_GapOrDuplicateRejected ==
    (/\ last.op = "reconstruct_file"
     /\ {last.manifest.chunks[j].chunk_index : j \in 1..Len(last.manifest.chunks)}
           # 0..(Len(last.manifest.chunks) - 1))
        => ~last.ret

\* C25: when reconstruct_file fails an integrity check, nothing it wrote is
\* left at output_path: on a chunk that fails its check nothing is written,
\* on a whole-file hash mismatch the file written is removed.
C25_NoOutputOnIntegrityFailure ==
    [][(last'.op = "reconstruct_file" /\ ~last'.ret) =>
          IF ChunkCheckFails(last'.manifest, last'.key)
          THEN files' = files
          ELSE ~files'["out"].exists]_vars

\* The chunks pass their checks, the whole file does not match file_hash.
C25_Witness ==
    /\ last.op = "reconstruct_file"
    /\ ~last.ret
    /\ Len(last.manifest.chunks) > 1
    /\ ~ChunkCheckFails(last.manifest, last.key)
    /\ ~files["out"].exists

\* C22: the manifest chunk_file returns has ceil(file_size / max_chunk_size)
\* chunks, and at least one chunk, also for an empty file.
C22_CeilChunksAtLeastOne ==
    last.op = "chunk_file" =>
        LET manifest == last.manifest
            n == Len(manifest.chunks)
        IN /\ manifest.num_chunks = n
           /\ n * MaxChunkSize >= manifest.file_size
           /\ n >= 1
           /\ (n - 1) * MaxChunkSize < manifest.file_size \/ manifest.file_size = 0

RECURSIVE sum_chunk_sizes(_)
sum_chunk_sizes(chunks) ==
    IF chunks = <<>> THEN 0 ELSE Head(chunks).chunk_size + sum_chunk_sizes(Tail(chunks))

\* C23: in the manifest chunk_file returns, chunk j of the list has
\* chunk_index j (from 0, no gap, no duplicate), every chunk but the last
\* has max_chunk_size bytes, the last has the remainder, the sizes add up to
\* file_size, and chunk_hash is the SHA-256 of the chunk's window of the
\* file.
C23_ManifestWellFormed ==
    last.op = "chunk_file" =>
        LET manifest == last.manifest
            chunks == manifest.chunks
            n == Len(chunks)
            data == files["src"].data
        IN /\ manifest.file_size = Len(data)
           /\ \A j \in 1..n : chunks[j].chunk_index = j - 1
           /\ \A j \in 1..(n - 1) : chunks[j].chunk_size = MaxChunkSize
           /\ n >= 1 => /\ chunks[n].chunk_size >= 1
                        /\ chunks[n].chunk_size
                             = manifest.file_size - (n - 1) * MaxChunkSize
           /\ sum_chunk_sizes(chunks) = manifest.file_size
           /\ \A j \in 1..n :
                 chunks[j].chunk_hash
                   = sha256_hex(SubSeq(data, (j - 1) * MaxChunkSize + 1,
                                       (j - 1) * MaxChunkSize + chunks[j].chunk_size))

\* Two chunks, the second shorter than the first.
C23_Witness ==
    /\ last.op = "chunk_file"
    /\ Len(last.manifest.chunks) = 2
    /\ last.manifest.chunks[2].chunk_size < last.manifest.chunks[1].chunk_size
    /\ last.manifest.chunks[1].chunk_hash # last.manifest.chunks[2].chunk_hash

(***************************************************************************)
(* The storage manager over a vault, a set of accounts and their Drive     *)
(* objects.  One vault is initialized; the file to store is empty, of one  *)
(* chunk or of two; an account has room for one full chunk or for          *)
(* everything; the bytes of a Drive object can be altered behind the       *)
(* program's back.                                                         *)
(***************************************************************************)
\* Two connected Google accounts, or none.
Accounts == {1, 2}

StoreNonces == [i \in 0..(MaxChunks - 1) |-> (i % NumNonces) + 1]

FileIds == 1..MaxStores

InitStore ==
    /\ vault = NewVaultCore
    /\ vault_store = <<>>
    /\ enc_log = {}
    /\ \E c \in {[i \in 1..n |-> i % 2] : n \in {0, 1, MaxChunkSize + 1}} :
          files = [NoFiles EXCEPT !["src"] = File(c)]
    /\ chunked = {}
    /\ stored_files = NoStoredFiles
    /\ drive = <<>>
    /\ accounts \in {NoAccounts}
                    \cup [Accounts -> {MaxChunkSize + 1,
                                       MaxStores * (MaxFileLen + MaxChunks)
                                         + SPACE_BUFFER + 1}]
    /\ next_token = 1
    /\ saved_registry = {}
    /\ storing = NoCall
    /\ auth_calls = [c \in Callers |-> "idle"]
    /\ auth_manager = NewGoogleAuthManager
    /\ last = [op |-> "new_instance", prev |-> "none", password |-> 0, given |-> 0,
               with_data |-> FALSE, msg |-> "", ret |-> TRUE]

StoreFile(fail_at) ==
    /\ LET r == store_file(vault, stored_files, drive, accounts, files["src"],
                           next_token, StoreNonces, 1, fail_at)
       IN /\ stored_files' = r.stored_files
          /\ drive' = r.drive
          /\ accounts' = r.accounts
          /\ next_token' = IF r.err \in {"Vault must be unlocked to store files",
                                           "Vault must be unlocked before encrypting files"}
                            THEN next_token
                            ELSE next_token + 1
          /\ last' = [op |-> "store_file", err |-> r.err, ret |-> r.ret]
    /\ UNCHANGED <<callVars, vault, vault_store, enc_log, files, chunked, saved_registry>>

RetrieveFile(file_id, fail_at) ==
    /\ LET r == retrieve_file(vault, stored_files, drive, file_id, files["out"], fail_at)
           chunks == IF file_id \in DOMAIN stored_files
                     THEN stored_files[file_id].chunks
                     ELSE <<>>
       IN /\ files' = [files EXCEPT !["out"] = r.out]
          /\ last' = [op |-> "retrieve_file", err |-> r.err, ret |-> r.ret,
                      file_id |-> file_id, method |-> r.method,
                      \* a chunk object of the file has altered bytes
                      altered |-> \E i \in 1..Len(chunks) :
                                     /\ chunks[i].drive_file_id \in DOMAIN drive
                                     /\ drive[chunks[i].drive_file_id].data.t # 0,
                      \* a download of a chunk of the file fails
                      download_failed |-> \E i \in 1..Len(chunks) :
                                     ~download_chunk(drive, chunks[i], i, fail_at).ok]
    /\ UNCHANGED <<callVars, vault, vault_store, enc_log, chunked, stored_files, drive, accounts, next_token, saved_registry>>

EncryptFile ==
    /\ LET r == encrypt_file(vault, "src", files["src"], 0, StoreNonces, 1)
       IN /\ chunked' = IF r.ok THEN {r.data} ELSE chunked
          /\ last' = [op |-> "encrypt_file", err |-> r.err, ret |-> r.ok]
    /\ UNCHANGED <<callVars, vault, vault_store, enc_log, files, stored_files, drive, accounts, next_token, saved_registry>>

DecryptFile(encrypted_manifest) ==
    /\ LET r == decrypt_file(vault, encrypted_manifest, files["out"])
       IN /\ files' = [files EXCEPT !["out"] = r.out]
          /\ last' = [op |-> "decrypt_file", err |-> r.err, ret |-> r.ret]
    /\ UNCHANGED <<callVars, vault, vault_store, enc_log, chunked, stored_files, drive, accounts, next_token, saved_registry>>

SaveFileRegistry ==
    /\ LET r == save_file_registry(vault, stored_files, 1)
       IN /\ saved_registry' = IF r.ok THEN {r.data} ELSE saved_registry
          /\ last' = [op |-> "save_file_registry", err |-> r.err, ret |-> r.ok]
    /\ UNCHANGED <<callVars, vault, vault_store, enc_log, files, chunked, stored_files, drive, accounts,
                   next_token>>

\* input tells where the argument comes from; registry_before is the
\* registry at the call.
LoadFileRegistry(input, encrypted_registry) ==
    /\ LET r == load_file_registry(vault, stored_files, encrypted_registry)
       IN /\ stored_files' = r.stored_files
          /\ last' = [op |-> "load_file_registry", err |-> r.err, ret |-> r.ret,
                      input |-> input, blob |-> encrypted_registry,
                      registry_before |-> DOMAIN stored_files]
    /\ UNCHANGED <<callVars, vault, vault_store, enc_log, files, chunked, drive, accounts, next_token,
                   saved_registry>>

\* A bit of the object's bytes flips on the backend.
AlterObject(drive_file_id) ==
    /\ Cardinality({j \in DOMAIN drive : drive[j].data.t # 0}) < MaxAltered
    /\ drive[drive_file_id].data.t = 0
    /\ drive' = [drive EXCEPT ![drive_file_id].data.t = 1]
    /\ last' = [op |-> "alter_object", err |-> "", ret |-> TRUE]
    /\ UNCHANGED <<callVars, vault, vault_store, enc_log, files, chunked, stored_files, accounts,
                   next_token, saved_registry>>

NextStore ==
    \/ vault_store = <<>> /\ InitializeVault(1)
    \/ \E p \in Passwords : \E i \in 1..Len(vault_store) :
          UnlockVault(p, vault_store[i].salt, {vault_store[i].verification_data})
    \/ LockVault
    \/ next_token <= MaxStores /\ \E fail_at \in 0..MaxChunks : StoreFile(fail_at)
    \/ \E f \in FileIds : \E fail_at \in 0..MaxChunks : RetrieveFile(f, fail_at)
    \/ EncryptFile
    \/ \E e \in chunked : DecryptFile(e)
    \/ SaveFileRegistry
    \/ \E b \in saved_registry : LoadFileRegistry("saved", b)
    \/ \E d \in DOMAIN drive : AlterObject(d)

SpecStore == InitStore /\ [][NextStore]_vars

\* C6: a call of encrypt_file, decrypt_file, store_file, retrieve_file,
\* save_file_registry or load_file_registry made while is_unlocked is False
\* raises an error and changes neither the registry nor any Drive object.
C6_LockedCallsRejected ==
    [][(~vault.is_unlocked /\ last'.op \in {"encrypt_file", "decrypt_file", "store_file",
                                          "retrieve_file", "save_file_registry",
                                          "load_file_registry"}) =>
          /\ last'.err # ""
          /\ stored_files' = stored_files
          /\ drive' = drive]_vars

C6_Witness ==
    /\ last.op = "retrieve_file"
    /\ last.file_id \in DOMAIN stored_files
    /\ ~vault.is_unlocked
    /\ vault.master_keys # NoKeys
    /\ last.err = "Vault must be unlocked to retrieve files"

\* C10: retrieve_file of an entry store_file created does not return True
\* when the bytes Drive returns for one of its chunks differ from the bytes
\* uploaded.
C10_RetrieveVerifiesDownloads ==
    (/\ last.op = "retrieve_file"
     /\ last.method = 1
     /\ last.altered) => ~last.ret

(***************************************************************************)
(* Deleting stored files: some of the delete requests to Drive may fail.   *)
(***************************************************************************)
DeleteFile(file_id, failing) ==
    /\ LET r == delete_file(vault, stored_files, drive, accounts, file_id, failing)
       IN /\ stored_files' = r.stored_files
          /\ drive' = r.drive
          /\ accounts' = r.accounts
          /\ last' = [op |-> "delete_file", err |-> r.err, ret |-> r.ret,
                      file_id |-> file_id,
                      found |-> file_id \in DOMAIN stored_files,
                      total_chunks |-> IF file_id \in DOMAIN stored_files
                                       THEN Len(stored_files[file_id].chunks)
                                       ELSE 0,
                      deleted_chunks |-> r.deleted_chunks]
    /\ UNCHANGED <<callVars, vault, vault_store, enc_log, files, chunked, next_token, saved_registry>>

NextDelete ==
    \/ vault_store = <<>> /\ InitializeVault(1)
    \/ LockVault
    \/ next_token <= MaxStores /\ StoreFile(MaxChunks)
    \/ \E f \in FileIds : \E failing \in SUBSET (1..MaxChunks) : DeleteFile(f, failing)

SpecDelete == InitStore /\ [][NextDelete]_vars

\* C12: delete_file removes the registry entry only when every chunk delete
\* succeeded; when some chunk delete fails it returns False and the entry is
\* still in the registry.
C12_EntryKeptOnPartialDelete ==
    (last.op = "delete_file" /\ last.found) =>
        /\ last.file_id \notin DOMAIN stored_files
              => last.deleted_chunks = last.total_chunks
        /\ last.deleted_chunks < last.total_chunks
              => (~last.ret /\ last.file_id \in DOMAIN stored_files)

LoadInputs ==
    {<<"saved", b>> : b \in saved_registry}
    \cup UNION {{<<"tampered", t>> : t \in TamperedBlobs(b, {}) \ {b}} :
                b \in saved_registry}
    \cup {LET k == b64decode(b.ciphertext).k
               key == <<CHOOSE p \in Passwords : p # k[1], k[2], k[3]>>
           IN <<"wrong_key", [b EXCEPT !.ciphertext.b.k = key,
                                       !.key_id = key_fingerprint(key)]>> :
            b \in saved_registry}
    \cup {<<"manifest", stored_files[f].metadata.encrypted_manifest>> :
            f \in DOMAIN stored_files}
    \cup {<<"malformed", [b EXCEPT !.ciphertext.b.d.val.stored_files =
                              dict_set(@, MaxStores + 1, [file_id |-> MaxStores + 1])]>> :
            b \in saved_registry}

NextRegistry ==
    \/ vault_store = <<>> /\ InitializeVault(1)
    \/ LockVault
    \/ \E i \in 1..Len(vault_store) :
          UnlockVault(1, vault_store[i].salt, {vault_store[i].verification_data})
    \/ next_token <= MaxStores /\ StoreFile(MaxChunks)
    \/ \E f \in FileIds : DeleteFile(f, {})
    \/ SaveFileRegistry
    \/ \E i \in LoadInputs : LoadFileRegistry(i[1], i[2])

SpecRegistry == InitStore /\ [][NextRegistry]_vars

\* C14: a load_file_registry that fails (wrong key, key_id mismatch, altered
\* blob, content that is no registry or has a malformed entry) returns False
\* or raises and leaves the registry as it was before the call.
C14_FailedLoadKeepsRegistry ==
    [][(last'.op = "load_file_registry" /\ (~last'.ret \/ last'.err # ""))
          => stored_files' = stored_files]_vars

C14_Witness ==
    /\ last.op = "load_file_registry"
    /\ last.input = "malformed"
    /\ vault.is_unlocked
    /\ ~last.ret
    /\ DOMAIN json_loads(b64decode(last.blob.ciphertext).d).stored_files
         = FileIds \cup {MaxStores + 1}
    /\ stored_files # NoStoredFiles

\* C15: load_file_registry of the blob save_file_registry returned, under the
\* same keys, succeeds and leaves in the registry exactly the saved file_ids,
\* each with the saved name, size, file_hash and chunk placements; entries
\* that were in the registry before the load and are not in the blob are
\* gone.
C15_LoadReplacesWithSaved ==
    (/\ last.op = "load_file_registry"
     /\ last.input = "saved"
     /\ vault.is_unlocked
     /\ vault.master_keys # NoKeys
     /\ last.blob.key_id = key_fingerprint(vault.master_keys.metadata_encryption))
    => LET saved == json_loads(b64decode(last.blob.ciphertext).d).stored_files
       IN /\ last.ret
          /\ DOMAIN stored_files = DOMAIN saved
          /\ \A f \in DOMAIN saved :
                /\ stored_files[f].file_id = saved[f].file_id
                /\ stored_files[f].original_name = saved[f].original_name
                /\ stored_files[f].original_size = saved[f].original_size
                /\ stored_files[f].file_hash = saved[f].file_hash
                /\ stored_files[f].chunks = saved[f].chunks

\* A saved entry of two chunks comes back into a registry that had lost it.
C15_Witness ==
    /\ last.op = "load_file_registry"
    /\ last.input = "saved"
    /\ last.ret
    /\ last.registry_before = {}
    /\ \E f \in DOMAIN stored_files : Len(stored_files[f].chunks) > 1

\* C17: in every state reached through store_file, delete_file and
\* load_file_registry, every entry of the registry has at least one placed
\* chunk.
C17_NoEntryWithoutChunks ==
    \A f \in DOMAIN stored_files : Len(stored_files[f].chunks) >= 1

(***************************************************************************)
(* store_file step by step: the checks and encrypt_file, one turn of the   *)
(* upload loop per step, then the registration.  Between two steps another *)
(* caller may list the stored files.  The file has no, one, two or three   *)
(* chunks; an account has room for one full chunk but not the margin, for  *)
(* one chunk and the margin, or for every chunk and the margin.            *)
(***************************************************************************)
UploadChunks == calculate_chunks_needed(2 * MaxChunkSize + 1)

\* len(chunk_data) of a full chunk.
MaxChunkLen == MaxChunkSize + 1

InitUpload ==
    /\ vault = NewVaultCore
    /\ vault_store = <<>>
    /\ enc_log = {}
    /\ \E c \in {[i \in 1..n |-> i % 2] :
                    n \in {0, 1, MaxChunkSize + 1, 2 * MaxChunkSize + 1}} :
          files = [NoFiles EXCEPT !["src"] = File(c)]
    /\ chunked = {}
    /\ stored_files = NoStoredFiles
    /\ drive = <<>>
    /\ accounts \in {NoAccounts}
                    \cup [{1, 2, 3} -> {MaxChunkLen,
                                        MaxChunkLen + SPACE_BUFFER + 1,
                                        UploadChunks * MaxChunkLen + SPACE_BUFFER + 1}]
    /\ next_token = 1
    /\ saved_registry = {}
    /\ storing = NoCall
    /\ auth_calls = [c \in Callers |-> "idle"]
    /\ auth_manager = NewGoogleAuthManager
    /\ last = [op |-> "new_instance", prev |-> "none", password |-> 0, given |-> 0,
               with_data |-> FALSE, msg |-> "", ret |-> TRUE]

\* The locals of the call in progress, with the manager's state.
Locals ==
    [stored_files |-> stored_files, drive |-> drive, accounts |-> accounts,
     uploaded_chunks |-> storing.uploaded_chunks,
     used_accounts |-> storing.used_accounts, err |-> ""]

\* The accounts _select_account_for_chunk finds suitable for a chunk of the
\* size, none excluded.
Suitable(chunk_size_bytes) ==
    {a \in DOMAIN accounts : accounts[a] > chunk_size_bytes + SPACE_BUFFER}

\* store_file up to the head of its loop.
BeginStore ==
    /\ storing = NoCall
    /\ next_token <= MaxStores
    /\ LET e == encrypt_for_store(vault, files["src"], next_token,
                                  [i \in 0..(UploadChunks - 1) |-> (i % NumNonces) + 1],
                                  1)
       IN IF e.ok
          THEN /\ storing' = [pc |-> "upload", file_id |-> next_token,
                              encrypted |-> e.data, i |-> 0,
                              uploaded_chunks |-> <<>>, used_accounts |-> <<>>,
                              suitable |-> DOMAIN accounts]
               /\ next_token' = next_token + 1
               /\ last' = [op |-> "encrypt_file", err |-> "", ret |-> TRUE]
          ELSE /\ storing' = storing
               /\ next_token' = next_token
               /\ last' = [op |-> "store_file", err |-> e.err, ret |-> NoFileId,
                           file_id |-> NoFileId]
    /\ UNCHANGED <<auth_calls, auth_manager, vault, vault_store, enc_log, files, chunked, stored_files, drive, accounts,
                   saved_registry>>

\* One turn of the loop: the chunk is placed and uploaded, or the call
\* raises.  suitable keeps the accounts that were suitable for every chunk
\* so far.
UploadChunk(fails) ==
    /\ storing.pc = "upload"
    /\ storing.i < Len(storing.encrypted.file_manifest.chunks)
    /\ LET file_manifest == storing.encrypted.file_manifest
           chunk_size == len_bytes(b64decode(
                            file_manifest.chunks[storing.i + 1].encrypted_data.ciphertext))
           exclude_accounts == IF Len(storing.used_accounts) < 2
                               THEN Range(storing.used_accounts)
                               ELSE {}
           r == upload_step(Locals, storing.file_id, file_manifest, storing.i, fails)
       IN /\ stored_files' = r.stored_files
          /\ drive' = r.drive
          /\ accounts' = r.accounts
          /\ IF r.err # ""
             THEN /\ storing' = NoCall
                  /\ last' = [op |-> "store_file", err |-> r.err, ret |-> NoFileId,
                              file_id |-> storing.file_id]
             ELSE LET placed == r.uploaded_chunks[Len(r.uploaded_chunks)]
                  IN /\ storing' = [storing EXCEPT
                                      !.i = @ + 1,
                                      !.uploaded_chunks = r.uploaded_chunks,
                                      !.used_accounts = r.used_accounts,
                                      !.suitable = @ \cap Suitable(chunk_size)]
                     /\ last' = [op |-> "upload_chunk", err |-> "", ret |-> TRUE,
                                 file_id |-> storing.file_id,
                                 drive_account |-> placed.drive_account,
                                 available |-> accounts[placed.drive_account],
                                 chunk_size |-> chunk_size,
                                 selected |-> _select_account_for_chunk(
                                     accounts, chunk_size, exclude_accounts),
                                 candidates |-> Suitable(chunk_size) \ exclude_accounts,
                                 available_gb |-> accounts]
    /\ UNCHANGED <<auth_calls, auth_manager, vault, vault_store, enc_log, files, chunked, next_token, saved_registry>>

\* store_file after its loop.
FinishStore ==
    /\ storing.pc = "upload"
    /\ storing.i = Len(storing.encrypted.file_manifest.chunks)
    /\ LET r == register_stored_file(Locals, storing.file_id, storing.encrypted)
       IN /\ stored_files' = r.stored_files
          /\ last' = [op |-> "store_file", err |-> "", ret |-> storing.file_id,
                      file_id |-> storing.file_id, suitable |-> storing.suitable]
    /\ storing' = NoCall
    /\ UNCHANGED <<auth_calls, auth_manager, vault, vault_store, enc_log, files, chunked, drive, accounts, next_token,
                   saved_registry>>

\* list_stored_files: file_id -> 'chunks' of the file info.
ListStoredFiles ==
    /\ last' = [op |-> "list_stored_files", err |-> "",
                ret |-> [f \in DOMAIN stored_files |-> Len(stored_files[f].chunks)]]
    /\ UNCHANGED <<auth_calls, auth_manager, vault, vault_store, enc_log, files, chunked, stored_files, drive, accounts, next_token, saved_registry, callVars>>

NextUpload ==
    \/ vault_store = <<>> /\ InitializeVault(1)
    \/ BeginStore
    \/ \E fails \in BOOLEAN : UploadChunk(fails)
    \/ FinishStore
    \/ ListStoredFiles

SpecUpload == InitUpload /\ [][NextUpload]_vars

\* C16: store_file puts the StoredFile into the registry as its last step,
\* after every chunk was uploaded; a store_file that raises leaves the
\* registry as it was; while chunks are being uploaded the registry, and so
\* whoever lists it, has no entry of the file.
C16_RegisteredLast ==
    [][/\ storing'.pc = "upload" => storing'.file_id \notin DOMAIN stored_files'
       /\ stored_files' # stored_files =>
             /\ storing.pc = "upload"
             /\ Len(storing.uploaded_chunks)
                  = Len(storing.encrypted.file_manifest.chunks)
             /\ last'.op = "store_file" /\ last'.err = ""
             /\ Len(stored_files'[storing.file_id].chunks)
                  = Len(storing.encrypted.file_manifest.chunks)
       /\ (last'.op = "store_file" /\ last'.err # "") =>
             stored_files' = stored_files]_vars

\* The files are listed while one chunk of three is uploaded.
C16_Witness ==
    /\ last.op = "list_stored_files"
    /\ storing.pc = "upload"
    /\ storing.i = 1
    /\ Len(storing.encrypted.file_manifest.chunks) = UploadChunks
    /\ DOMAIN last.ret = {}
    /\ drive # <<>>

\* C18: when store_file raises because a chunk upload failed, no chunk
\* uploaded for that file is left on Drive.
C18_FailedStoreCleansUp ==
    (last.op = "store_file" /\ last.err = "upload failed") =>
        \A d \in DOMAIN drive :
            drive[d].properties.fid = first20(last.file_id) => drive[d].deleted

\* C19: store_file uploads no chunk to an account whose available space is
\* less than the chunk size plus the margin.
C19_NoUploadBelowMargin ==
    last.op = "upload_chunk" => last.available >= last.chunk_size + SPACE_BUFFER

\* C20: a store_file that succeeds for a file of two or more chunks, with
\* two or more accounts suitable for every chunk when it was placed, has
\* placed the chunks on two or more accounts.
C20_SpreadOverTwoAccounts ==
    (/\ last.op = "store_file"
     /\ last.err = ""
     /\ Len(stored_files[last.file_id].chunks) >= 2
     /\ Cardinality(last.suitable) >= 2)
    => Cardinality({stored_files[last.file_id].chunks[i].drive_account :
                      i \in 1..Len(stored_files[last.file_id].chunks)}) >= 2

\* Three chunks; the account of the first chunk is still the one with the
\* most space when the second is placed.
C20_Witness ==
    /\ last.op = "store_file"
    /\ last.err = ""
    /\ Cardinality(last.suitable) >= 2
    /\ LET chunks == stored_files[last.file_id].chunks
       IN /\ Len(chunks) = UploadChunks
          /\ chunks[1].drive_account # chunks[2].drive_account
          /\ \A a \in DOMAIN accounts :
                accounts[chunks[1].drive_account] >= accounts[a]


\* ---------------------------------------------------------------------------
\* Discovery: the registry rebuilt from the chunk objects found on the drive.
\* Two files are stored, so that the registry can hold two entries.
\* ---------------------------------------------------------------------------
\* The ids of the two files.
DiscoveryFileIds == {1, 2}

\* Both accounts have room for every chunk of every file stored.
DiscoverySpace == Cardinality(DiscoveryFileIds) * (MaxFileLen + MaxChunks) + SPACE_BUFFER + 1

\* A file of one chunk or of two, no vault yet, an empty drive.
InitDiscovery ==
    /\ vault = NewVaultCore
    /\ vault_store = <<>>
    /\ enc_log = {}
    /\ \E n \in {1, MaxChunkSize + 1} :
          files = [NoFiles EXCEPT !["src"] = File([i \in 1..n |-> i % 2])]
    /\ chunked = {}
    /\ stored_files = NoStoredFiles
    /\ drive = <<>>
    /\ accounts = [a \in Accounts |-> DiscoverySpace]
    /\ next_token = 1
    /\ saved_registry = {}
    /\ storing = NoCall
    /\ auth_calls = [c \in Callers |-> "idle"]
    /\ auth_manager = NewGoogleAuthManager
    /\ last = [op |-> "new_instance", err |-> "", ret |-> TRUE]

\* The ids of the objects of the drive that are not deleted and are named
\* after file_id.
LiveObjects(drv, file_id) ==
    {d \in DOMAIN drv : ~drv[d].deleted /\ drv[d].name[1] = file_id}

\* The backend object ids a StoredFile references.
ObjectIds(stored_file) ==
    {stored_file.chunks[i].drive_file_id : i \in 1..Len(stored_file.chunks)}

Discovered(stored_file) ==
    dict_get(stored_file.metadata, "discovered_from_chunks", FALSE)

\* A new StorageManager over the same vault and accounts: __init__ starts
\* with an empty registry and runs auto_scan_existing_files.
NewStorageManager ==
    /\ stored_files' = auto_scan_existing_files(vault, NoStoredFiles, drive, accounts)
    /\ last' = [op |-> "auto_scan_existing_files", err |-> "",
                ret |-> vault.is_unlocked]
    /\ UNCHANGED <<callVars, vault, vault_store, enc_log, files, chunked, drive, accounts,
                   next_token, saved_registry>>

RefreshFileDiscovery ==
    /\ stored_files' = refresh_file_discovery(vault, stored_files, drive, accounts)
    /\ last' = [op |-> "refresh_file_discovery", err |-> "",
                ret |-> vault.is_unlocked]
    /\ UNCHANGED <<callVars, vault, vault_store, enc_log, files, chunked, drive, accounts,
                   next_token, saved_registry>>

NextDiscovery ==
    \/ vault_store = <<>> /\ InitializeVault(1)
    \/ LockVault
    \/ \E i \in 1..Len(vault_store) :
          UnlockVault(1, vault_store[i].salt, {vault_store[i].verification_data})
    \/ next_token \in DiscoveryFileIds /\ StoreFile(MaxChunks)
    \/ \E f \in DiscoveryFileIds : \E failing \in SUBSET (1..MaxChunks) :
          DeleteFile(f, failing)
    \/ NewStorageManager
    \/ RefreshFileDiscovery
    \/ SaveFileRegistry
    \/ \E b \in saved_registry : LoadFileRegistry("saved", b)

SpecDiscovery == InitDiscovery /\ [][NextDiscovery]_vars

\* C26: refresh_file_discovery leaves every entry of the registry that is not
\* marked as discovered in place and unchanged, and every other entry of the
\* registry afterwards is a discovered one, under a file id that none of the
\* kept entries has.
C26_RefreshKeepsAuthoritative ==
    [][last'.op = "refresh_file_discovery" =>
          LET kept == {f \in DOMAIN stored_files : ~Discovered(stored_files[f])}
          IN /\ \A f \in kept : /\ f \in DOMAIN stored_files'
                                /\ stored_files'[f] = stored_files[f]
             /\ \A f \in DOMAIN stored_files' \ kept :
                   Discovered(stored_files'[f])]_vars

\* A refresh that found the chunks of a kept entry on the drive, and added a
\* discovered entry for another file.
C26_Witness ==
    /\ last.op = "refresh_file_discovery"
    /\ \E f, g \in DOMAIN stored_files :
          /\ ~Discovered(stored_files[f])
          /\ LiveObjects(drive, f) # {}
          /\ Discovered(stored_files[g])

\* C27: after a scan by an unlocked manager, every discovered entry references
\* every chunk object of its file on every account, in the order of the
\* chunk numbers.
C27_DiscoveredReferencesAllChunks ==
    (last.op \in {"auto_scan_existing_files", "refresh_file_discovery"} /\ last.ret) =>
        \A f \in DOMAIN stored_files :
            Discovered(stored_files[f]) =>
                LET chunks == stored_files[f].chunks
                IN /\ ObjectIds(stored_files[f]) = LiveObjects(drive, f)
                   /\ \A i, j \in 1..Len(chunks) :
                         i < j => drive[chunks[i].drive_file_id].name[2]
                                    < drive[chunks[j].drive_file_id].name[2]

\* C28: no backend object id is referenced by two entries of the registry.
C28_NoSharedObject ==
    \A f, g \in DOMAIN stored_files :
        f # g => ObjectIds(stored_files[f]) \cap ObjectIds(stored_files[g]) = {}

\* Two entries with chunks, one stored and one discovered.
C28_Witness ==
    \E f, g \in DOMAIN stored_files :
        /\ Discovered(stored_files[f]) /\ ~Discovered(stored_files[g])
        /\ ObjectIds(stored_files[f]) # {}
        /\ ObjectIds(stored_files[g]) # {}

\* ---------------------------------------------------------------------------
\* The Drive client's calls, attempt by attempt: what the API does at each
\* attempt is an input, the loops of the client decide how many are made.
\* ---------------------------------------------------------------------------
max_retries == 3

\* What one attempt of an API request does: it succeeds, raises an HttpError
\* with a status, or raises another exception (a network error).
Ok == [kind |-> "ok", status |-> 200]
HttpError(status) == [kind |-> "HttpError", status |-> status]
NetworkError == [kind |-> "Exception", status |-> 0]
NoError == [kind |-> "none", status |-> 0]

\* The API answers 404 for an object that is not there, whatever else.
api_outcome(drv, account_id, drive_file_id, outcome) ==
    IF /\ outcome = Ok
       /\ ~(/\ drive_file_id \in DOMAIN drv
            /\ drv[drive_file_id].drive_account = account_id
            /\ ~drv[drive_file_id].deleted)
    THEN HttpError(404)
    ELSE outcome

\* The loop of upload_chunk from attempt number attempt (0-based), outcomes
\* being what the attempts do: the attempts made and the error raised.
RECURSIVE upload_chunk_attempts(_, _)
upload_chunk_attempts(outcomes, attempt) ==
    LET e == outcomes[attempt + 1]
    IN IF e = Ok
       THEN [attempts |-> attempt + 1, raised |-> NoError]
       ELSE IF e.kind = "HttpError" /\ e.status = 403
       THEN [attempts |-> attempt + 1, raised |-> e]
       ELSE IF e.kind = "HttpError" /\ e.status = 401
       THEN [attempts |-> attempt + 1, raised |-> e]
       ELSE IF attempt < max_retries - 1
       THEN upload_chunk_attempts(outcomes, attempt + 1)
       ELSE [attempts |-> attempt + 1, raised |-> e]

\* The loop of download_chunk.
RECURSIVE download_chunk_attempts(_, _)
download_chunk_attempts(outcomes, attempt) ==
    LET e == outcomes[attempt + 1]
    IN IF e = Ok
       THEN [attempts |-> attempt + 1, raised |-> NoError]
       ELSE IF e.kind = "HttpError" /\ e.status = 404
       THEN [attempts |-> attempt + 1, raised |-> e]
       ELSE IF e.kind = "HttpError" /\ e.status = 401
       THEN [attempts |-> attempt + 1, raised |-> e]
       ELSE IF attempt < max_retries - 1
       THEN download_chunk_attempts(outcomes, attempt + 1)
       ELSE [attempts |-> attempt + 1, raised |-> e]

\* The chunk a client call uploads.
ClientChunk == [k |-> <<1, 1, 0>>, n |-> 1, d |-> [kind |-> "raw", val |-> <<1>>],
                t |-> 0]

ClientOutcomes ==
    [1..max_retries -> {Ok, HttpError(401), HttpError(403), HttpError(404),
                        HttpError(500), NetworkError}]

InitClient ==
    /\ vault = NewVaultCore
    /\ vault_store = <<>>
    /\ enc_log = {}
    /\ files = NoFiles
    /\ chunked = {}
    /\ stored_files = NoStoredFiles
    /\ drive = <<>>
    /\ accounts = [a \in Accounts |-> DiscoverySpace]
    /\ next_token = 1
    /\ saved_registry = {}
    /\ storing = NoCall
    /\ auth_calls = [c \in Callers |-> "idle"]
    /\ auth_manager = NewGoogleAuthManager
    /\ last = [op |-> "new_instance", account_id |-> NoAccount, first |-> NoError,
               attempts |-> 0, raised |-> NoError, ok |-> TRUE]

ClientUpload(account_id, outcomes) ==
    /\ Len(drive) < MaxChunks
    /\ LET r == upload_chunk_attempts(outcomes, 0)
           chunk_name == <<1, Len(drive), <<1, Len(drive)>>>>
           metadata == [brontobox_file_id |-> 1, chunk_index |-> Len(drive)]
       IN /\ drive' = IF r.raised = NoError
                      THEN upload_chunk(drive, account_id, ClientChunk, chunk_name,
                                        metadata)
                      ELSE drive
          /\ accounts' = IF r.raised = NoError
                         THEN [accounts EXCEPT ![account_id] = @ - len_bytes(ClientChunk)]
                         ELSE accounts
          /\ last' = [op |-> "upload_chunk", account_id |-> account_id,
                      first |-> outcomes[1], attempts |-> r.attempts,
                      raised |-> r.raised, ok |-> r.raised = NoError]
    /\ UNCHANGED <<callVars, vault, vault_store, enc_log, files, chunked, stored_files, next_token,
                   saved_registry>>

ClientDownload(account_id, drive_file_id, outcomes) ==
    /\ LET api == [i \in 1..max_retries |->
                     api_outcome(drive, account_id, drive_file_id, outcomes[i])]
           r == download_chunk_attempts(api, 0)
       IN last' = [op |-> "download_chunk", account_id |-> account_id,
                   first |-> api[1], attempts |-> r.attempts,
                   raised |-> r.raised, ok |-> r.raised = NoError]
    /\ UNCHANGED <<callVars, vault, vault_store, enc_log, files, chunked, stored_files, drive, accounts, next_token, saved_registry>>

ClientDelete(account_id, drive_file_id, outcomes) ==
    /\ LET api == [i \in 1..max_retries |->
                     api_outcome(drive, account_id, drive_file_id, outcomes[i])]
           r == [attempts |-> 1, raised |-> NoError, ret |-> api[1] = Ok]
           done == delete_chunk(drive, accounts, account_id, drive_file_id, ~r.ret)
       IN /\ drive' = done.drive
          /\ accounts' = done.accounts
          /\ last' = [op |-> "delete_chunk", account_id |-> account_id,
                      first |-> api[1], attempts |-> r.attempts,
                      raised |-> r.raised, ok |-> r.ret]
    /\ UNCHANGED <<callVars, vault, vault_store, enc_log, files, chunked, stored_files, next_token,
                   saved_registry>>

NextClient ==
    \/ \E a \in Accounts : \E o \in ClientOutcomes : ClientUpload(a, o)
    \/ \E a \in Accounts : \E d \in 1..MaxChunks : \E o \in ClientOutcomes :
          ClientDownload(a, d, o)
    \/ \E a \in Accounts : \E d \in 1..MaxChunks : \E o \in ClientOutcomes :
          ClientDelete(a, d, o)

SpecClient == InitClient /\ [][NextClient]_vars

\* C29: a call of upload_chunk, download_chunk or delete_chunk makes at most
\* 3 attempts, and one whose first attempt fails with a transient failure
\* makes a further attempt.
C29_TransientRetriedBounded ==
    last.op \in {"upload_chunk", "download_chunk", "delete_chunk"} =>
        /\ last.attempts <= max_retries
        /\ last.first \in {HttpError(500), NetworkError} => last.attempts >= 2

\* C30: a call of upload_chunk or download_chunk whose first attempt fails
\* with HTTP 401 or HTTP 403 makes that one attempt only and raises the error.
C30_AuthAndQuotaNotRetried ==
    (/\ last.op \in {"upload_chunk", "download_chunk"}
     /\ last.first \in {HttpError(401), HttpError(403)}) =>
        /\ last.attempts = 1
        /\ last.raised = last.first

\* ---------------------------------------------------------------------------
\* Retrieval of stored, discovered and imported entries: a file is stored,
\* a new manager discovers its chunks, registries are saved and loaded, the
\* bytes of an object are altered on the drive.
\* ---------------------------------------------------------------------------
NextRetrieve ==
    \/ vault_store = <<>> /\ InitializeVault(1)
    \/ next_token <= MaxStores /\ StoreFile(MaxChunks)
    \/ NewStorageManager
    \/ SaveFileRegistry
    \/ \E b \in saved_registry : LoadFileRegistry("saved", b)
    \/ \E d \in DOMAIN drive : AlterObject(d)
    \/ \E f \in FileIds : \E fail_at \in 0..MaxChunks : RetrieveFile(f, fail_at)

SpecRetrieve == InitDiscovery /\ [][NextRetrieve]_vars

ApiCall(op, status, detail, master_password, salt, file_ids, deleted) ==
    [op |-> op, status |-> status, detail |-> detail,
     password |-> master_password, salt |-> salt,
     file_ids |-> file_ids, deleted |-> deleted,
     prev |-> [op |-> last.op, status |-> last.status, detail |-> last.detail,
               password |-> last.password, salt |-> last.salt]]

\* The state after /vault/initialize with password 1 and the authentication
\* of the accounts.
InitApi ==
    /\ LET r == initialize_vault(NewVaultCore, 1, 1, 1, 1)
       IN /\ vault = r.self
          /\ vault_store = <<[vault_id |-> r.ret.vault_id, salt |-> r.ret.salt,
                              verification_data |-> r.ret.verification_data,
                              password |-> 1, keys |-> r.self.master_keys]>>
    /\ enc_log = {}
    /\ \E n \in {1, MaxChunkSize + 1} :
          files = [NoFiles EXCEPT !["src"] = File([i \in 1..n |-> i % 2])]
    /\ chunked = {}
    /\ stored_files = NoStoredFiles
    /\ drive = <<>>
    /\ accounts = [a \in Accounts |-> DiscoverySpace]
    /\ next_token = 1
    /\ saved_registry = {}
    /\ storing = NoCall
    /\ auth_calls = [c \in Callers |-> "idle"]
    /\ auth_manager = NewGoogleAuthManager
    /\ last = [op |-> "initialize_vault", status |-> 200, detail |-> "",
               password |-> 1, salt |-> b64encode(1), file_ids |-> {},
               deleted |-> {},
               prev |-> [op |-> "none", status |-> 0, detail |-> "",
                         password |-> 0, salt |-> b64encode(0)]]

\* save_file_registry_to_disk: the registry file after the call.
save_file_registry_to_disk(self, reg, saved) ==
    IF self.vault_id # NoVaultId /\ DOMAIN reg # {}
    THEN LET r == save_file_registry(self, reg, 1)
         IN IF r.ok THEN {r.data} ELSE saved
    ELSE saved

ApiUnlockVault(master_password, salt) ==
    LET matching == {i \in 1..Len(vault_store) : vault_store[i].salt = salt}
    IN IF matching = {}
       THEN /\ last' = ApiCall("unlock_vault", 404, "No vault found with this salt",
                               master_password, salt, {}, last.deleted)
            /\ UNCHANGED <<callVars, vault, vault_store, enc_log, files, chunked,
                           stored_files, drive, accounts, next_token, saved_registry>>
       ELSE LET matching_vault == vault_store[CHOOSE i \in matching :
                                                 \A j \in matching : i <= j]
                r == unlock_vault(NewVaultCore, master_password, salt,
                                  {matching_vault.verification_data})
                scanned == auto_scan_existing_files(r.self, NoStoredFiles, drive, accounts)
                loaded == IF saved_registry = {}
                          THEN scanned
                          ELSE load_file_registry(r.self, scanned,
                                   CHOOSE b \in saved_registry : TRUE).stored_files
            IN IF ~r.ret
               THEN /\ last' = ApiCall("unlock_vault", 401,
                                       "Invalid master password or salt",
                                       master_password, salt, {}, last.deleted)
                    /\ UNCHANGED <<callVars, vault, vault_store, enc_log, files, chunked,
                                   stored_files, drive, accounts, next_token,
                                   saved_registry>>
               ELSE /\ vault' = r.self
                    /\ stored_files' =
                          IF DOMAIN accounts # {}
                          THEN refresh_file_discovery(r.self, loaded, drive, accounts)
                          ELSE loaded
                    /\ last' = ApiCall("unlock_vault", 200, "", master_password, salt,
                                       {}, last.deleted)
                    /\ UNCHANGED <<callVars, vault_store, enc_log, files, chunked, drive,
                                   accounts, next_token, saved_registry>>

ApiLockVault ==
    /\ IF ~vault.is_unlocked
       THEN UNCHANGED <<vault, stored_files, saved_registry>>
       ELSE /\ saved_registry' =
                  IF vault.vault_id # NoVaultId /\ DOMAIN stored_files # {}
                  THEN LET r == save_file_registry(vault, stored_files, 1)
                       IN IF r.ok THEN {r.data} ELSE saved_registry
                  ELSE saved_registry
            /\ vault' = lock_vault(vault)
            /\ stored_files' = NoStoredFiles
    /\ last' = ApiCall("lock_vault", 200, "", 0, b64encode(0), {}, last.deleted)
    /\ UNCHANGED <<callVars, vault_store, enc_log, files, chunked, drive, accounts,
                   next_token>>

ApiUploadFile(fail_at) ==
    IF ~vault.is_unlocked
    THEN /\ last' = ApiCall("upload_file", 401, "Vault must be unlocked first",
                            0, b64encode(0), {}, last.deleted)
         /\ UNCHANGED <<callVars, vault, vault_store, enc_log, files, chunked,
                        stored_files, drive, accounts, next_token, saved_registry>>
    ELSE LET r == store_file(vault, stored_files, drive, accounts, files["src"],
                             next_token, StoreNonces, 1, fail_at)
         IN /\ stored_files' = r.stored_files
            /\ drive' = r.drive
            /\ accounts' = r.accounts
            /\ next_token' = next_token + 1
            /\ saved_registry' =
                  IF r.err = "" /\ r.ret \in DOMAIN r.stored_files
                  THEN save_file_registry_to_disk(vault, r.stored_files, saved_registry)
                  ELSE saved_registry
            /\ last' = ApiCall("upload_file",
                               IF r.err = "" /\ r.ret \in DOMAIN r.stored_files
                               THEN 200 ELSE 500,
                               r.err, 0, b64encode(0), {}, last.deleted)
            /\ UNCHANGED <<callVars, vault, vault_store, enc_log, files, chunked>>

ApiDeleteFile(file_id, failing) ==
    IF ~vault.is_unlocked
    THEN /\ last' = ApiCall("delete_file", 401, "Vault must be unlocked first",
                            0, b64encode(0), {}, last.deleted)
         /\ UNCHANGED <<callVars, vault, vault_store, enc_log, files, chunked,
                        stored_files, drive, accounts, next_token, saved_registry>>
    ELSE IF file_id \notin DOMAIN stored_files
    THEN /\ last' = ApiCall("delete_file", 404, "File not found",
                            0, b64encode(0), {}, last.deleted)
         /\ UNCHANGED <<callVars, vault, vault_store, enc_log, files, chunked,
                        stored_files, drive, accounts, next_token, saved_registry>>
    ELSE LET r == delete_file(vault, stored_files, drive, accounts, file_id, failing)
         IN /\ stored_files' = r.stored_files
            /\ drive' = r.drive
            /\ accounts' = r.accounts
            /\ saved_registry' =
                  IF r.ret
                  THEN save_file_registry_to_disk(vault, r.stored_files, saved_registry)
                  ELSE saved_registry
            /\ last' = IF r.ret
                       THEN ApiCall("delete_file", 200, "", 0, b64encode(0),
                                    {file_id}, last.deleted \cup {file_id})
                       ELSE ApiCall("delete_file", 500, "Failed to delete file",
                                    0, b64encode(0), {file_id}, last.deleted)
            /\ UNCHANGED <<callVars, vault, vault_store, enc_log, files, chunked,
                           next_token>>

\* clear_all_data: the loop over stored_files.items() calls delete_file, which
\* removes the entry from the dict being iterated, so the step of the
\* iterator after the first deletion raises RuntimeError, outside the inner
\* try; the handler answers 500.  With an empty registry the loop has no turn
\* and the steps 2 to 5 run.
ApiClearAllData(first, failing) ==
    IF ~vault.is_unlocked
    THEN /\ last' = ApiCall("clear_all_data", 401, "Vault must be unlocked first",
                            0, b64encode(0), {}, last.deleted)
         /\ UNCHANGED <<callVars, vault, vault_store, enc_log, files, chunked,
                        stored_files, drive, accounts, next_token, saved_registry>>
    ELSE IF DOMAIN stored_files = {}
    THEN /\ accounts' = NoAccounts
         /\ saved_registry' = {}
         /\ vault_store' = SelectSeq(vault_store,
                                     LAMBDA v : v.vault_id # vault.vault_id)
         /\ vault' = lock_vault(vault)
         /\ last' = ApiCall("clear_all_data", 200, "", 0, b64encode(0), {},
                            last.deleted)
         /\ UNCHANGED <<callVars, enc_log, files, chunked, stored_files, drive,
                        next_token>>
    ELSE /\ first \in DOMAIN stored_files
         /\ LET r == delete_file(vault, stored_files, drive, accounts, first, failing)
            IN /\ stored_files' = r.stored_files
               /\ drive' = r.drive
               /\ accounts' = r.accounts
         /\ last' = ApiCall("clear_all_data", 500,
                            "dictionary changed size during iteration",
                            0, b64encode(0), {first}, last.deleted)
         /\ UNCHANGED <<callVars, vault, vault_store, enc_log, files, chunked,
                        next_token, saved_registry>>

NextApi ==
    \/ \E p \in Passwords : \E s \in Salts : ApiUnlockVault(p, b64encode(s))
    \/ ApiLockVault
    \/ next_token <= MaxStores /\ \E fail_at \in {1, MaxChunks} : ApiUploadFile(fail_at)
    \/ \E f \in FileIds : \E failing \in SUBSET {1} : ApiDeleteFile(f, failing)
    \/ \E f \in FileIds \cup {0} : \E failing \in SUBSET {1} : ApiClearAllData(f, failing)

SpecApi == InitApi /\ [][NextApi]_vars

\* C31: for the same stored vault, a failed /vault/unlock answers the same
\* for a wrong password with the right salt as for the right password with
\* a wrong salt.
C31_FailedUnlockIndistinguishable ==
    (/\ last.op = "unlock_vault"
     /\ last.prev.op = "unlock_vault"
     /\ \E i \in 1..Len(vault_store) :
           /\ last.prev.password # vault_store[i].password
           /\ last.prev.salt = vault_store[i].salt
           /\ last.password = vault_store[i].password
           /\ last.salt # vault_store[i].salt)
    => /\ last.status = last.prev.status
       /\ last.detail = last.prev.detail

\* C35: after a lock and a successful unlock, the registry holds no entry
\* for a file that was deleted with success through the API before.
C35_DeletedStaysDeleted ==
    (last.op = "unlock_vault" /\ last.status = 200 /\ last.prev.op = "lock_vault") =>
        last.deleted \cap DOMAIN stored_files = {}

\* C38: clear_all_data called with an unlocked vault and at least one stored
\* file calls delete_file for every stored file, clears the accounts and
\* ends with the vault locked and the app state cleared.
C38_ClearAllData ==
    [][(/\ last'.op = "clear_all_data"
        /\ vault.is_unlocked
        /\ DOMAIN stored_files # {})
       => /\ last'.file_ids = DOMAIN stored_files
          /\ accounts' = NoAccounts
          /\ ~vault'.is_unlocked
          /\ stored_files' = NoStoredFiles]_vars

\* ---------------------------------------------------------------------------
\* authenticate_new_account called by concurrent threads on the one
\* GoogleAuthManager of an unlocked vault whose OAuth configuration is set.
\* The method takes no lock, so every statement is a step of its own.
\* ---------------------------------------------------------------------------
\* Lines 108-115: the checks of the vault and of the configuration, the
\* reading of the clock.
AuthBegin(c) ==
    /\ auth_calls[c] = "idle"
    /\ IF ~vault.is_unlocked
       THEN /\ last' = [op |-> "authenticate_new_account", caller |-> c, ret |-> FALSE,
                        err |-> "Vault must be unlocked before authenticating accounts"]
            /\ UNCHANGED auth_calls
       ELSE /\ auth_calls' = [auth_calls EXCEPT ![c] = "guard"]
            /\ last' = [op |-> "begin", caller |-> c, ret |-> TRUE, err |-> ""]
    /\ UNCHANGED <<storing, auth_manager, vault, vault_store, enc_log, files, chunked,
                   stored_files, drive, accounts, next_token, saved_registry>>

\* Lines 116-117: the in-progress guard.
AuthCheckInProgress(c) ==
    /\ auth_calls[c] = "guard"
    /\ IF auth_manager._auth_in_progress
       THEN /\ auth_calls' = [auth_calls EXCEPT ![c] = "idle"]
            /\ last' = [op |-> "authenticate_new_account", caller |-> c, ret |-> FALSE,
                        err |-> "Authentication already in progress. Please wait and try again."]
       ELSE /\ auth_calls' = [auth_calls EXCEPT ![c] = "cooldown"]
            /\ last' = [op |-> "guard", caller |-> c, ret |-> TRUE, err |-> ""]
    /\ UNCHANGED <<storing, auth_manager, vault, vault_store, enc_log, files, chunked,
                   stored_files, drive, accounts, next_token, saved_registry>>

\* Lines 119-120: the cooldown; elapsed tells whether ten seconds have
\* passed since the authentication before (always so when there was none).
AuthCheckCooldown(c, elapsed) ==
    /\ auth_calls[c] = "cooldown"
    /\ IF auth_manager._last_auth_time # 0 /\ ~elapsed
       THEN /\ auth_calls' = [auth_calls EXCEPT ![c] = "idle"]
            /\ last' = [op |-> "authenticate_new_account", caller |-> c, ret |-> FALSE,
                        err |-> "Please wait 10 seconds between authentication attempts."]
       ELSE /\ auth_calls' = [auth_calls EXCEPT ![c] = "set"]
            /\ last' = [op |-> "cooldown", caller |-> c, ret |-> TRUE, err |-> ""]
    /\ UNCHANGED <<storing, auth_manager, vault, vault_store, enc_log, files, chunked,
                   stored_files, drive, accounts, next_token, saved_registry>>

\* Lines 122-123.
AuthSetInProgress(c) ==
    /\ auth_calls[c] = "set"
    /\ auth_manager' = [_auth_in_progress |-> TRUE, _last_auth_time |-> 1]
    /\ auth_calls' = [auth_calls EXCEPT ![c] = "flow"]
    /\ last' = [op |-> "set", caller |-> c, ret |-> TRUE, err |-> ""]
    /\ UNCHANGED <<storing, vault, vault_store, enc_log, files, chunked,
                   stored_files, drive, accounts, next_token, saved_registry>>

\* Lines 125-244: the OAuth flow returns the account id or raises; the
\* finally clause resets the flag.
AuthFinish(c, raises) ==
    /\ auth_calls[c] = "flow"
    /\ auth_manager' = [auth_manager EXCEPT !._auth_in_progress = FALSE]
    /\ auth_calls' = [auth_calls EXCEPT ![c] = "idle"]
    /\ last' = [op |-> "authenticate_new_account", caller |-> c, ret |-> ~raises,
                err |-> IF raises THEN "OAuth flow failed" ELSE ""]
    /\ UNCHANGED <<storing, vault, vault_store, enc_log, files, chunked,
                   stored_files, drive, accounts, next_token, saved_registry>>

NextAuth ==
    \E c \in Callers :
        \/ AuthBegin(c)
        \/ AuthCheckInProgress(c)
        \/ \E elapsed \in BOOLEAN : AuthCheckCooldown(c, elapsed)
        \/ AuthSetInProgress(c)
        \/ \E raises \in BOOLEAN : AuthFinish(c, raises)

SpecAuth == InitApi /\ [][NextAuth]_vars

\* C39: at most one authenticate_new_account call is inside the guarded
\* section at any time, and _auth_in_progress is False when the call that
\* set it has returned or raised and no call is inside the section.
C39_OneAuthenticationAtATime ==
    /\ Cardinality({c \in Callers : auth_calls[c] = "flow"}) <= 1
    /\ (\A c \in Callers : auth_calls[c] # "flow") => ~auth_manager._auth_in_progress

\* C21: the account _select_account_for_chunk returns for a chunk is, of the
\* accounts that are not excluded and have room for the chunk and the
\* margin, one with the greatest available space; it returns none only when
\* there is no such account.
C21_GreatestCapacityChosen ==
    last.op = "upload_chunk" =>
        IF last.candidates = {}
        THEN last.selected = NoAccount
        ELSE /\ last.selected \in last.candidates
             /\ \A a \in last.candidates :
                   last.available_gb[last.selected] >= last.available_gb[a]

\* The chunk goes to the account of most space although another account,
\* of a lower id, is suitable too.
C21_Witness ==
    /\ last.op = "upload_chunk"
    /\ last.selected # NoAccount
    /\ last.drive_account = last.selected
    /\ \E a \in last.candidates :
          /\ a < last.selected
          /\ last.available_gb[a] < last.available_gb[last.selected]

====
